---- MODULE Spec2Model ----
(***************************************************************************)
(* AndroCFG: the smali line parser (process_instruction.py), the IR and    *)
(* its resolution phases (structures.py) and the driver loop (extract.py). *)
(*                                                                         *)
(* Text is a sequence of atoms: an atom is a run of characters that no     *)
(* operation of the program cuts ("goto", "L1", "com"), and every          *)
(* separator the program splits on or searches for is an atom of its own   *)
(* (" ", "/", ";", "->", "(", ")", ":").  str.split, str.replace, `in`,    *)
(* slicing and the anchored regular expressions are computed on these      *)
(* sequences.                                                              *)
(***************************************************************************)
EXTENDS Integers, Sequences, FiniteSets, TLC

(***************************************************************************)
(* Python values                                                           *)
(***************************************************************************)
\* None, where the program holds an object reference or an id
None == -1

Last(s) == s[Len(s)]

Front(s) == SubSeq(s, 1, Len(s) - 1)

\* a in list
InSeq(x, s) == \E i \in 1..Len(s) : s[i] = x

\* text.startswith(pat); re.compile("^pat").match(text)
StartsWith(text, pat) ==
    /\ Len(text) >= Len(pat)
    /\ SubSeq(text, 1, Len(pat)) = pat

\* pat in text
Contains(text, pat) ==
    \E i \in 1..(Len(text) - Len(pat) + 1) : SubSeq(text, i, i + Len(pat) - 1) = pat

\* text.split(sep) for sep in seps: the pieces between separators, [""] for ""
RECURSIVE SplitAcc(_, _, _)
SplitAcc(text, seps, cur) ==
    IF text = <<>> THEN <<cur>>
    ELSE IF Head(text) \in seps
         THEN <<cur>> \o SplitAcc(Tail(text), seps, <<>>)
         ELSE SplitAcc(Tail(text), seps, Append(cur, Head(text)))

Split(text, sep) == SplitAcc(text, {sep}, <<>>)

\* sep.join(parts)
RECURSIVE Join(_, _)
Join(parts, sep) ==
    IF parts = <<>> THEN <<>>
    ELSE IF Len(parts) = 1 THEN parts[1]
    ELSE parts[1] \o <<sep>> \o Join(Tail(parts), sep)

\* text.replace(pat, ""), leftmost occurrences first
RECURSIVE Remove(_, _)
Remove(text, pat) ==
    IF text = <<>> THEN <<>>
    ELSE IF StartsWith(text, pat) THEN Remove(SubSeq(text, Len(pat) + 1, Len(text)), pat)
    ELSE <<Head(text)>> \o Remove(Tail(text), pat)

\* text.strip() of a text whose only whitespace atom is " "
RECURSIVE LStrip(_)
LStrip(text) ==
    IF text # <<>> /\ Head(text) = " " THEN LStrip(Tail(text)) ELSE text

RECURSIVE RStrip(_)
RStrip(text) ==
    IF text # <<>> /\ Last(text) = " " THEN RStrip(Front(text)) ELSE text

Strip(text) == RStrip(LStrip(text))

(***************************************************************************)
(* process_instruction.py: op_map, the anchored patterns the parser and    *)
(* the driver match a line against                                         *)
(***************************************************************************)
op_map ==
    [ move             |-> <<"move">>,
      return           |-> <<"return">>,
      const            |-> <<"const">>,
      p_switch         |-> <<"packed-switch">>,
      goto             |-> <<"goto">>,
      if               |-> <<"if-">>,
      invoke           |-> <<"invoke">>,
      class            |-> <<".class">>,
      super            |-> <<".super">>,
      source           |-> <<".source">>,
      method_start     |-> <<".method">>,
      method_end       |-> <<".end", " ", "method">>,
      field_start      |-> <<".field">>,
      field_end        |-> <<".end", " ", "field">>,
      label            |-> <<":">>,
      comment          |-> <<"#">>,
      line             |-> <<".line">>,
      annotation_start |-> <<".annotation">>,
      annotation_end   |-> <<".end", " ", "annotation">>,
      pswitch_start    |-> <<".packed-switch">>,
      pswitch_end      |-> <<".end", " ", "packed-switch">>,
      sswitch_start    |-> <<".sparse-switch">>,
      sswitch_end      |-> <<".end", " ", "sparse-switch">> ]

\* op_map[kind].match(instr)
Match(kind, instr) == StartsWith(instr, op_map[kind])

(***************************************************************************)
(* structures.py: Instruction, BasicBlock, Method, SmaliClass              *)
(***************************************************************************)
Instruction(instr, itype, instr_id, line_num, method_id, class_id, block_id) ==
    [ instruction |-> instr,
      itype       |-> itype,
      instr_id    |-> instr_id,
      line_num    |-> line_num,
      method_id   |-> method_id,
      class_id    |-> class_id,
      block_id    |-> block_id ]

BasicBlock(block_id, leader) ==
    [ block_id         |-> block_id,
      instructions     |-> <<leader>>,
      parent_block_ids |-> <<>>,
      child_block_ids  |-> <<>> ]

\* Method.process_method_directive: (method_name, param_types, return_type)
npt_fragments(instr) == SplitAcc(Last(Split(instr, " ")), {"(", ")"}, <<>>)

process_method_directive(instr) ==
    [ method_name |-> npt_fragments(instr)[1],
      param_types |-> Split(npt_fragments(instr)[2], ";"),
      return_type |-> npt_fragments(instr)[3] ]

\* the IndexError of npt_fragments[1], npt_fragments[2]
process_method_directive_raises(instr) == Len(npt_fragments(instr)) < 3

Method(method_id, method_instr) ==
    [ method_id      |-> method_id,
      method_name    |-> process_method_directive(method_instr).method_name,
      return_type    |-> process_method_directive(method_instr).return_type,
      param_types    |-> process_method_directive(method_instr).param_types,
      basic_blocks   |-> <<>>,
      calls_out      |-> <<>>,
      calls_in       |-> <<>>,
      annotation     |-> <<>>,
      label_calls    |-> <<>>,
      previous_label |-> <<>>,
      label_aliases  |-> <<>> ]

\* SmaliClass.process_class_header: (class_name, class_path)
class_path_fragments(class_header) == Split(Last(Split(class_header, " ")), "/")

process_class_header(class_header) ==
    [ class_name |-> Remove(Last(class_path_fragments(class_header)), <<";">>),
      class_path |-> Join(Front(class_path_fragments(class_header)), "/") ]

SmaliClass(class_id, class_header) ==
    [ class_id           |-> class_id,
      class_name         |-> process_class_header(class_header).class_name,
      class_path         |-> process_class_header(class_header).class_path,
      super_class        |-> <<>>,
      source             |-> <<>>,
      annotations        |-> <<>>,
      fields             |-> <<>>,
      methods            |-> <<>>,
      invocations_local  |-> <<>>,
      invocations_global |-> <<>>,
      invocations_lib    |-> <<>> ]

\* Method.label_aliases is a dict: a sequence of (key, aliases) pairs, one per key
HasKey(dict, key) == \E i \in 1..Len(dict) : dict[i][1] = key

Lookup(dict, key) == dict[CHOOSE i \in 1..Len(dict) : dict[i][1] = key][2]

\* dict[key] = value
SetKey(dict, key, value) ==
    IF HasKey(dict, key)
    THEN [i \in 1..Len(dict) |-> IF dict[i][1] = key THEN <<key, value>> ELSE dict[i]]
    ELSE Append(dict, <<key, value>>)

(***************************************************************************)
(* The Graph (the parser state).  Objects live in three heaps keyed by     *)
(* their id: C (SmaliClass), M (Method), B (BasicBlock); a list of objects *)
(* is the list of their ids, and None is a null reference.                 *)
(***************************************************************************)
VARIABLES
    state,          \* the Graph object of extract.py
    pc,             \* the driver's position: open, lines, global, library, done, crashed
    file_idx,       \* the for-loop's index into state.file_list (0: before the first)
    line_num,       \* enumerate(smali_instructions, 1) of the open file
    lines_read,     \* the lines of the open file handed to the parser so far
    response,       \* the reports the two interprocedural phases returned
    family,         \* the input family the run's files are drawn from
    files_read,     \* per queue entry visited: whether its file opened, its lines
    output          \* the graph file written: format, type and lines of text

vars == <<state, pc, file_idx, line_num, lines_read, response, family, files_read, output>>

\* Graph.__init__
Graph(file_list) ==
    [ file_list       |-> file_list,
      class_id        |-> 0,
      method_id       |-> 0,
      block_id        |-> 0,
      instruction_id  |-> 0,
      classes         |-> <<>>,
      active_class    |-> None,
      active_method   |-> None,
      active_block    |-> None,
      ANNOTATION_FLAG |-> FALSE,
      FIELD_FLAG      |-> FALSE,
      SWITCH_FLAG     |-> FALSE,
      METHOD_FLAG     |-> FALSE,
      block_term      |-> TRUE,
      C               |-> <<>>,
      M               |-> <<>>,
      B               |-> <<>>,
      failures        |-> <<>> ]

\* heap[id] = object, for a new or an existing id
Store(heap, id, object) == (id :> object) @@ heap

\* BasicBlock.add_instruction / add_parent_block_id / add_child_block_id
add_instruction(st, block, instruction) ==
    [st EXCEPT !.B[block].instructions = Append(@, instruction)]

add_parent_block_id(st, block, parent_id) ==
    [st EXCEPT !.B[block].parent_block_ids = Append(@, parent_id)]

add_child_block_id(st, block, child_id) ==
    [st EXCEPT !.B[block].child_block_ids = Append(@, child_id)]

\* Method.add_basic_block / add_call_out / add_call_in / add_annotation
add_basic_block(st, method, basic_block) ==
    [st EXCEPT !.M[method].basic_blocks = Append(@, basic_block)]

add_call_out(st, method, target_method_id) ==
    [st EXCEPT !.M[method].calls_out = Append(@, target_method_id)]

add_call_in(st, method, source_method_id) ==
    [st EXCEPT !.M[method].calls_in = Append(@, source_method_id)]

add_method_annotation(st, method, annotation_line) ==
    [st EXCEPT !.M[method].annotation = Append(@, annotation_line)]

\* Method.add_label_call
add_label_call(st, method, instr, b_id) ==
    [st EXCEPT !.M[method].label_calls = Append(@, <<Last(Split(instr, " ")), b_id>>)]

\* SmaliClass.add_annotation / add_field: `+= line` extends the list by the
\* characters of the line
add_annotation(st, class, line) ==
    [st EXCEPT !.C[class].annotations = @ \o line]

add_field(st, class, line) ==
    [st EXCEPT !.C[class].fields = @ \o line]

\* SmaliClass.add_method / add_super / add_source
add_method(st, class, method) ==
    [st EXCEPT !.C[class].methods = Append(@, method)]

add_super(st, class, instr) ==
    [st EXCEPT !.C[class].super_class = Remove(Last(Split(instr, " ")), <<";">>)]

add_source(st, class, instr) ==
    [st EXCEPT !.C[class].source = Remove(Last(Split(instr, " ")), <<"\"">>)]

\* Graph.add_class
add_class(st, smali_class) ==
    [st EXCEPT !.classes = Append(@, smali_class)]

(***************************************************************************)
(* structures.py: SmaliClass.add_invocation                                *)
(***************************************************************************)
\* the atoms made of word characters only (\w+)
Words == {"L", "com", "app", "org", "java", "lang", "A", "B", "S", "f", "g", "h", "V", "I",
          "StringBuilder", "String", "append"}

\* invoke_class_regex = \sL\w+(\/\w+)+(\S)*;-> : where a match may start, and
\* where the match starting at i may end (at the "->" of a ";->")
invoke_class_ends(instr, i) ==
    { j \in (i + 6)..Len(instr) :
        /\ instr[j - 1] = ";"
        /\ instr[j] = "->"
        /\ \A k \in (i + 1)..j : instr[k] # " " }

invoke_class_starts(instr) ==
    { i \in 1..(Len(instr) - 4) :
        /\ instr[i] = " "
        /\ instr[i + 1] = "L"
        /\ instr[i + 2] \in Words
        /\ instr[i + 3] = "/"
        /\ instr[i + 4] \in Words
        /\ invoke_class_ends(instr, i) # {} }

\* invoke_class_regex.search(instr).group(0): leftmost start, greedy end
invoke_class_regex(instr) ==
    LET i == CHOOSE a \in invoke_class_starts(instr) :
                 \A b \in invoke_class_starts(instr) : a <= b
        j == CHOOSE a \in invoke_class_ends(instr, i) :
                 \A b \in invoke_class_ends(instr, i) : a >= b
    IN  SubSeq(instr, i, j)

\* FileItem, a file queue entry (extract.py:40, 54, 77)
FileItem(file_name) == [file_name |-> file_name, make_library |-> FALSE]

\* line 341: class_to_add, a str; it has no attribute but its text
Str(text) == [str |-> text]

\* whether a queue entry has the attribute file_name (a FileItem has, a str
\* has not)
HasFileName(item) == "file_name" \in DOMAIN item

\* class_to_add in state_file_list: a str of the queue by its text, a FileItem
\* by its file name
InFileList(file_list, file_name) ==
    \E i \in 1..Len(file_list) :
        IF HasFileName(file_list[i])
        THEN file_list[i].file_name = file_name
        ELSE file_list[i].str = file_name

\* the AttributeError of search(instr).group, the IndexError of split("/")[1]
add_invocation_raises(st, class, instr) ==
    \/ invoke_class_starts(instr) = {}
    \/ Len(Split(st.C[class].class_path, "/")) < 2

add_invocation(st, class, instr, method_id, block_id) ==
    LET target_class  == Remove(Strip(invoke_class_regex(instr)), <<";", "->">>)
        target_method == Strip(Last(Split(instr, "->")))
        app_top_level == Split(st.C[class].class_path, "/")[2]
        class_to_add  == <<"smali", "/">> \o Tail(target_class) \o <<".smali">>
    IN  IF st.C[class].class_path \o <<"/">> \o st.C[class].class_name = target_class
        THEN IF Contains(instr, <<"invoke", "-direct">>)
             THEN [st EXCEPT !.C[class].invocations_local =
                                 Append(@, <<method_id, block_id, target_method>>)]
             ELSE st
        ELSE IF Contains(target_class, <<"L", "com">>) /\ Contains(target_class, app_top_level)
        THEN [st EXCEPT !.C[class].invocations_global =
                            Append(@, <<method_id, block_id, target_class, target_method>>),
                        !.file_list =
                            IF InFileList(@, class_to_add)
                            THEN @
                            ELSE Append(@, Str(class_to_add))]
        ELSE [st EXCEPT !.C[class].invocations_lib =
                            Append(@, <<method_id, block_id, target_class, target_method>>)]

(***************************************************************************)
(* structures.py: Method.resolve_labels                                    *)
(***************************************************************************)
\* the first index of a list whose element satisfies a test, 0 when none does
FirstIndex(hits) == IF hits = {} THEN 0 ELSE CHOOSE i \in hits : \A k \in hits : i <= k

\* lines 191-199: one (alias, caller) per alias of an aliased label, else the call
RECURSIVE expand_calls(_, _)
expand_calls(label_calls, label_aliases) ==
    IF label_calls = <<>> THEN <<>>
    ELSE LET label  == Head(label_calls)[1]
             caller == Head(label_calls)[2]
             aliases == Lookup(label_aliases, label)
         IN  (IF HasKey(label_aliases, label)
              THEN [i \in 1..Len(aliases) |-> <<aliases[i], caller>>]
              ELSE <<Head(label_calls)>>)
             \o expand_calls(Tail(label_calls), label_aliases)

\* lines 207-215: the first block of the method whose leader text is the label
label_target(st, method, label) ==
    LET bbs == st.M[method].basic_blocks
    IN  FirstIndex({i \in 1..Len(bbs) : st.B[bbs[i]].instructions[1].instruction = label})

\* lines 221-227: the first block of the method whose id is the caller's
label_source(st, method, caller) ==
    LET bbs == st.M[method].basic_blocks
    IN  FirstIndex({i \in 1..Len(bbs) : st.B[bbs[i]].block_id = caller})

\* resolve_label_call without line 226's add_parent_block_id: the edge is
\* entered at the caller only (C9 tells the two apart)
resolve_label_call_child_only(st, method, label, caller) ==
    LET bbs == st.M[method].basic_blocks
        t   == label_target(st, method, label)
        s   == label_source(st, method, caller)
    IN  IF t # 0 /\ s # 0
        THEN add_child_block_id(st, bbs[s], st.B[bbs[t]].block_id)
        ELSE st

\* lines 203-229, one iteration
resolve_label_call(st, method, label, caller) ==
    LET bbs == st.M[method].basic_blocks
        t   == label_target(st, method, label)
        s   == label_source(st, method, caller)
    IN  IF t # 0 /\ s # 0
        THEN add_parent_block_id(add_child_block_id(st, bbs[s], st.B[bbs[t]].block_id),
                                 bbs[t], st.B[bbs[s]].block_id)
        ELSE st

RECURSIVE resolve_label_calls(_, _, _)
resolve_label_calls(st, method, calls) ==
    IF calls = <<>> THEN st
    ELSE resolve_label_calls(
             resolve_label_call(st, method, Head(calls)[1], Head(calls)[2]),
             method, Tail(calls))

\* the report resolve_labels returns: nothing is ever added to it
resolve_labels_report(st, method) == <<>>

\* `if success` reads a name no iteration has bound when the method has no block
resolve_labels_raises(st, method) ==
    /\ st.M[method].basic_blocks = <<>>
    /\ expand_calls(st.M[method].label_calls, st.M[method].label_aliases) # <<>>

resolve_labels(st, method) ==
    resolve_label_calls(st, method,
        expand_calls(st.M[method].label_calls, st.M[method].label_aliases))

(***************************************************************************)
(* process_instruction.py: terminate_and_start_block, process_instruction  *)
(***************************************************************************)
\* terminate_and_start_block without lines 98-99's add_parent_block_id: the
\* new block does not learn its parent (C7 tells the two apart)
terminate_and_start_block_unlinked(st, instruction) ==
    LET closed  == IF st.active_block # None
                   THEN add_basic_block(
                            add_child_block_id(st, st.active_block, st.block_id),
                            st.active_method, st.active_block)
                   ELSE st
    IN  [closed EXCEPT !.block_term = FALSE,
                       !.B = Store(@, st.block_id, BasicBlock(st.block_id, instruction)),
                       !.active_block = st.block_id,
                       !.block_id = @ + 1]

\* terminate_and_start_block without line 95's block_term = False: the flag
\* stays set behind the new block (C28 tells the two apart)
terminate_and_start_block_pending(st, instruction) ==
    [terminate_and_start_block_unlinked(st, instruction) EXCEPT
        !.block_term = st.block_term,
        !.B[st.block_id].parent_block_ids =
            IF st.active_block # None THEN <<st.B[st.active_block].block_id>> ELSE <<>>]

terminate_and_start_block(st, instruction) ==
    LET parent_id == IF st.active_block # None THEN st.B[st.active_block].block_id ELSE None
        closed    == IF st.active_block # None
                     THEN add_basic_block(
                              add_child_block_id(st, st.active_block, st.block_id),
                              st.active_method, st.active_block)
                     ELSE st
        started   == [closed EXCEPT !.block_term = FALSE,
                                    !.B = Store(@, st.block_id, BasicBlock(st.block_id, instruction)),
                                    !.active_block = st.block_id]
        linked    == IF parent_id # None
                     THEN add_parent_block_id(started, started.active_block, parent_id)
                     ELSE started
    IN  [linked EXCEPT !.block_id = @ + 1]

\* lines 112-123: a line while ANNOTATION_FLAG is set
process_annotation(instr, st) ==
    IF st.METHOD_FLAG THEN add_method_annotation(st, st.active_method, instr)
    ELSE IF st.FIELD_FLAG THEN add_field(st, st.active_class, instr)
    ELSE add_annotation(st, st.active_class, instr)

\* lines 125-127: a line while FIELD_FLAG is set
process_field(instr, st) == add_field(st, st.active_class, instr)

\* lines 129-150: a line while SWITCH_FLAG is set
process_switch(instr, st) ==
    LET m == st.active_method
    IN  IF Match("pswitch_start", instr) \/ Match("sswitch_start", instr)
        THEN LET previous_label == Last(st.B[st.active_block].instructions).instruction
             IN  [st EXCEPT !.M[m].previous_label = previous_label,
                            !.M[m].label_aliases = SetKey(@, previous_label, <<>>),
                            !.active_block = None]
        ELSE IF Match("label", instr)
        THEN [st EXCEPT !.M[m].label_aliases =
                            SetKey(@, st.M[m].previous_label,
                                   Append(Lookup(@, st.M[m].previous_label), instr))]
        ELSE st

\* lines 157-193: .method
process_method_start(instr, line_num_, st) ==
    LET pushed == IF st.active_method # None
                  THEN add_method(add_basic_block(st, st.active_method, st.active_block),
                                  st.active_class, st.active_method)
                  ELSE st
        \* line 168: a Method that line 189 replaces; the instruction keeps its id
        first_method == Method(st.method_id, instr)
        instruction  == Instruction(instr, "method_start", st.instruction_id, line_num_,
                                    first_method.method_id,
                                    st.C[st.active_class].class_id,
                                    st.block_id)
        block        == BasicBlock(st.block_id + 1, instruction)
        method       == Method(st.method_id + 1, instr)
    IN  [pushed EXCEPT !.instruction_id = @ + 1,
                       !.block_id = @ + 2,
                       !.method_id = @ + 2,
                       !.B = Store(@, block.block_id, block),
                       !.active_block = block.block_id,
                       !.M = Store(@, method.method_id, method),
                       !.active_method = method.method_id,
                       !.block_term = FALSE]

\* the Instruction every other branch of the method context builds first
new_instruction(instr, itype, line_num_, st) ==
    Instruction(instr, itype, st.instruction_id, line_num_,
                st.M[st.active_method].method_id,
                st.C[st.active_class].class_id,
                st.B[st.active_block].block_id)

\* place_instruction without the test of block_term: the instruction always
\* joins the active block (C8 tells the two apart)
place_instruction_appending(instr, itype, line_num_, st) ==
    add_instruction([st EXCEPT !.instruction_id = @ + 1], st.active_block,
                    new_instruction(instr, itype, line_num_, st))

\* instruction_id += 1, then terminate_and_start_block or add_instruction
place_instruction(instr, itype, line_num_, st) ==
    LET instruction == new_instruction(instr, itype, line_num_, st)
        counted     == [st EXCEPT !.instruction_id = @ + 1]
    IN  IF st.block_term
        THEN terminate_and_start_block(counted, instruction)
        ELSE add_instruction(counted, st.active_block, instruction)

\* lines 195-222: .end method
process_method_end(instr, line_num_, st) ==
    LET placed == [place_instruction(instr, "method_end", line_num_, st)
                       EXCEPT !.block_term = TRUE]
    IN  [resolve_labels(placed, placed.active_method)
            EXCEPT !.failures = Store(@, placed.active_method,
                                      resolve_labels_report(placed, placed.active_method))]

\* lines 224-246: a label
process_label(instr, line_num_, st) ==
    LET closed      == add_basic_block(
                           add_child_block_id(st, st.active_block, st.block_id),
                           st.active_method, st.active_block)
        parent_id   == st.B[st.active_block].block_id
        instruction == new_instruction(instr, "label", line_num_, st)
        started     == [closed EXCEPT !.B = Store(@, st.block_id, BasicBlock(st.block_id, instruction)),
                                      !.active_block = st.block_id]
    IN  [add_parent_block_id(started, started.active_block, parent_id)
            EXCEPT !.block_id = @ + 1,
                   !.instruction_id = @ + 2]

\* process_return without line 266's block_term = True: the block stays open
\* behind the return (C10 tells the two apart)
process_return_open(instr, line_num_, st) ==
    place_instruction(instr, "return", line_num_, st)

\* lines 248-266: return
process_return(instr, line_num_, st) ==
    [place_instruction(instr, "return", line_num_, st) EXCEPT !.block_term = TRUE]

\* lines 269-293: goto
process_goto(instr, line_num_, st) ==
    LET placed == [place_instruction(instr, "goto", line_num_, st) EXCEPT !.block_term = TRUE]
    IN  add_label_call(placed, placed.active_method, instr, placed.B[placed.active_block].block_id)

\* process_if without line 317's block_term = True: the instruction behind
\* the if joins the if's block (C2 tells the two apart)
process_if_falls_through(instr, line_num_, st) ==
    LET placed == place_instruction(instr, "if", line_num_, st)
    IN  add_label_call(placed, placed.active_method, instr, placed.B[placed.active_block].block_id)

\* lines 295-317: if
process_if(instr, line_num_, st) ==
    LET placed == place_instruction(instr, "if", line_num_, st)
    IN  [add_label_call(placed, placed.active_method, instr, placed.B[placed.active_block].block_id)
            EXCEPT !.block_term = TRUE]

\* lines 319-343: invoke
process_invoke(instr, line_num_, st) ==
    LET placed == [place_instruction(instr, "invoke", line_num_, st) EXCEPT !.block_term = TRUE]
    IN  add_invocation(placed, placed.active_class, instr,
                       placed.M[placed.active_method].method_id,
                       placed.B[placed.active_block].block_id)

\* lines 348-365: any other instruction
process_other(instr, line_num_, st) == place_instruction(instr, "other", line_num_, st)

\* lines 152-365: a line while METHOD_FLAG is set
process_method(instr, line_num_, st) ==
    IF Match("method_start", instr) THEN process_method_start(instr, line_num_, st)
    ELSE IF Match("method_end", instr) THEN process_method_end(instr, line_num_, st)
    ELSE IF Match("label", instr) THEN process_label(instr, line_num_, st)
    ELSE IF Match("return", instr) THEN process_return(instr, line_num_, st)
    ELSE IF Match("goto", instr) THEN process_goto(instr, line_num_, st)
    ELSE IF Match("if", instr) THEN process_if(instr, line_num_, st)
    ELSE IF Match("invoke", instr) THEN process_invoke(instr, line_num_, st)
    ELSE IF Match("line", instr) THEN st
    ELSE process_other(instr, line_num_, st)

\* lines 368-382: a line outside every context
process_top_level(instr, st) ==
    IF Match("class", instr)
    THEN [st EXCEPT !.C = Store(@, st.class_id, SmaliClass(st.class_id, instr)),
                    !.active_class = st.class_id,
                    !.class_id = @ + 1]
    ELSE IF Match("super", instr) THEN add_super(st, st.active_class, instr)
    ELSE IF Match("source", instr) THEN add_source(st, st.active_class, instr)
    ELSE st

\* process_instruction with METHOD_FLAG tested first: a line of a region
\* inside a method is handled as an instruction (C30 tells the two apart)
process_instruction_method_first(instr, line_num_, st) ==
    IF st.METHOD_FLAG THEN process_method(instr, line_num_, st)
    ELSE IF st.ANNOTATION_FLAG THEN process_annotation(instr, st)
    ELSE IF st.FIELD_FLAG THEN process_field(instr, st)
    ELSE IF st.SWITCH_FLAG THEN process_switch(instr, st)
    ELSE process_top_level(instr, st)

process_instruction(instr, line_num_, st) ==
    IF st.ANNOTATION_FLAG THEN process_annotation(instr, st)
    ELSE IF st.FIELD_FLAG THEN process_field(instr, st)
    ELSE IF st.SWITCH_FLAG THEN process_switch(instr, st)
    ELSE IF st.METHOD_FLAG THEN process_method(instr, line_num_, st)
    ELSE process_top_level(instr, st)

\* the exceptions process_instruction raises: a None active class, method or
\* block is dereferenced, a dict key is missing, a list index is out of range
process_instruction_raises(instr, line_num_, st) ==
    IF st.ANNOTATION_FLAG
    THEN IF st.METHOD_FLAG THEN st.active_method = None ELSE st.active_class = None
    ELSE IF st.FIELD_FLAG THEN st.active_class = None
    ELSE IF st.SWITCH_FLAG
    THEN IF Match("pswitch_start", instr) \/ Match("sswitch_start", instr)
         THEN st.active_method = None \/ st.active_block = None
         ELSE IF Match("label", instr)
         THEN \/ st.active_method = None
              \/ ~HasKey(st.M[st.active_method].label_aliases,
                         st.M[st.active_method].previous_label)
         ELSE FALSE
    ELSE IF st.METHOD_FLAG
    THEN IF Match("method_start", instr)
         THEN process_method_directive_raises(instr) \/ st.active_class = None
         ELSE IF ~Match("method_end", instr) /\ ~Match("label", instr)
                 /\ ~Match("return", instr) /\ ~Match("goto", instr)
                 /\ ~Match("if", instr) /\ ~Match("invoke", instr)
                 /\ Match("line", instr)
         THEN FALSE
         ELSE \/ st.active_method = None
              \/ st.active_class = None
              \/ st.active_block = None
              \/ /\ Match("method_end", instr)
                 /\ LET placed == place_instruction(instr, "method_end", line_num_, st)
                    IN  resolve_labels_raises(placed, placed.active_method)
              \/ /\ ~Match("method_end", instr) /\ ~Match("label", instr)
                 /\ ~Match("return", instr) /\ ~Match("goto", instr)
                 /\ ~Match("if", instr) /\ Match("invoke", instr)
                 /\ add_invocation_raises(st, st.active_class, instr)
    ELSE IF Match("class", instr) THEN FALSE
    ELSE IF Match("super", instr) \/ Match("source", instr) THEN st.active_class = None
    ELSE IF Match("comment", instr) THEN FALSE
    ELSE instr # <<>> /\ st.active_class = None

(***************************************************************************)
(* structures.py: SmaliClass.resolve_local_invocations                     *)
(***************************************************************************)
\* a for loop over a list of references that dereferences each element until
\* it breaks at index hit (0: never) meets a None first
MeetsNone(refs, hit) ==
    \E i \in 1..Len(refs) : refs[i] = None /\ (hit = 0 \/ i < hit)

\* the first method of a list whose name / whose id is the given one
method_by_name(st, methods, name) ==
    FirstIndex({i \in 1..Len(methods) :
                   methods[i] # None /\ st.M[methods[i]].method_name = name})

method_by_id(st, methods, method_id) ==
    FirstIndex({i \in 1..Len(methods) :
                   methods[i] # None /\ st.M[methods[i]].method_id = method_id})

\* the first block of a list whose id is the given one
block_by_id(st, blocks, block_id) ==
    FirstIndex({i \in 1..Len(blocks) :
                   blocks[i] # None /\ st.B[blocks[i]].block_id = block_id})

\* connect_local adding the call edges only, whatever the target returns (C12
\* tells the two apart)
connect_local_call_only(st, src_method, src_block, target_method) ==
    LET target_block == st.M[target_method].basic_blocks[1]
        s1 == add_child_block_id(st, src_block, st.B[target_block].block_id)
        s2 == add_parent_block_id(s1, target_block, st.B[src_block].block_id)
        s3 == add_call_out(s2, src_method, st.M[target_method].method_id)
    IN  add_call_in(s3, target_method, st.M[src_method].method_id)

\* lines 392-409: the edges of one resolved call, source block to target entry,
\* and for a non-void target the target's last block back to the source
connect_local(st, src_method, src_block, target_method) ==
    LET target_block == st.M[target_method].basic_blocks[1]
        target_final == Last(st.M[target_method].basic_blocks)
        s1 == add_child_block_id(st, src_block, st.B[target_block].block_id)
        s2 == add_parent_block_id(s1, target_block, st.B[src_block].block_id)
        s3 == add_call_out(s2, src_method, st.M[target_method].method_id)
        s4 == add_call_in(s3, target_method, st.M[src_method].method_id)
        s5 == add_child_block_id(s4, target_final, st.B[src_block].block_id)
        s6 == add_parent_block_id(s5, src_block, st.B[target_final].block_id)
        s7 == add_call_in(s6, src_method, st.M[target_method].method_id)
        s8 == add_call_out(s7, target_method, st.M[src_method].method_id)
    IN  IF st.M[target_method].return_type # <<"V">> THEN s8 ELSE s4

\* lines 358-415, one iteration: acc is (st, failed, raised); `failed` is set
\* before the loop only and never cleared
resolve_local_invocation(acc, class, invocation) ==
    LET st       == acc.st
        methods  == st.C[class].methods
        cleaned_target_method == Split(invocation[3], "(")[1]
        t        == method_by_name(st, methods, cleaned_target_method)
        failed1  == acc.failed \/ t = 0
        s        == method_by_id(st, methods, invocation[1])
        failed2  == failed1 \/ s = 0
        blocks   == st.M[methods[s]].basic_blocks
        b        == block_by_id(st, blocks, invocation[2])
        raises   == \/ MeetsNone(methods, t)
                    \/ t # 0 /\ st.M[methods[t]].basic_blocks = <<>>
                    \/ ~failed1 /\ MeetsNone(methods, s)
                    \/ ~failed2 /\ MeetsNone(blocks, b)
                    \/ ~failed2 /\ b # 0 /\ st.M[methods[t]].basic_blocks[1] = None
                    \/ ~failed2 /\ b # 0 /\ st.M[methods[t]].return_type # <<"V">>
                                /\ Last(st.M[methods[t]].basic_blocks) = None
    IN  IF acc.raised \/ raises THEN [acc EXCEPT !.raised = TRUE]
        ELSE IF failed2 THEN [acc EXCEPT !.failed = TRUE]
        ELSE IF b = 0 THEN acc
        ELSE [acc EXCEPT !.st = connect_local(st, methods[s], blocks[b], methods[t])]

RECURSIVE resolve_local_loop(_, _, _)
resolve_local_loop(acc, class, invocations) ==
    IF invocations = <<>> THEN acc
    ELSE resolve_local_loop(resolve_local_invocation(acc, class, Head(invocations)),
                            class, Tail(invocations))

resolve_local_run(st, class) ==
    resolve_local_loop([st |-> st, failed |-> FALSE, raised |-> FALSE],
                       class, st.C[class].invocations_local)

resolve_local_invocations(st, class) == resolve_local_run(st, class).st

resolve_local_invocations_raises(st, class) == resolve_local_run(st, class).raised

(***************************************************************************)
(* structures.py: Graph.resolve_global_invocations                         *)
(***************************************************************************)
\* the first class of a list whose class_name is the given one
class_by_name(st, classes, name) ==
    FirstIndex({i \in 1..Len(classes) : st.C[classes[i]].class_name = name})

\* lines 544-556
connect_global(st, src_method, src_block, target_method) ==
    LET target_block == st.M[target_method].basic_blocks[1]
        target_final == Last(st.M[target_method].basic_blocks)
        s1 == add_child_block_id(st, src_block, st.B[target_block].block_id)
        s2 == add_parent_block_id(s1, target_block, st.B[src_block].block_id)
        s3 == add_call_in(s2, src_method, st.M[target_method].method_id)
        s4 == add_call_out(s3, target_method, st.M[src_method].method_id)
        s5 == add_child_block_id(s4, target_final, st.B[src_block].block_id)
        s6 == add_parent_block_id(s5, src_block, st.B[target_final].block_id)
        s7 == add_call_out(s6, src_method, st.M[target_method].method_id)
        s8 == add_call_in(s7, target_method, st.M[src_method].method_id)
    IN  IF st.M[target_method].return_type # <<"V">> THEN s8 ELSE s4

\* lines 488-556, one iteration: acc is (st, report, raised, broke); a failed
\* lookup adds to the report and breaks out of the class's loop
resolve_global_invocation(acc, class, invocation) ==
    LET st         == acc.st
        methods    == st.C[class].methods
        class_name == st.C[class].class_name
        target_class_name  == invocation[3]
        target_method_name == invocation[4]
        s  == method_by_id(st, methods, invocation[1])
        clean_target_class_name == Remove(Last(Split(target_class_name, "/")), <<";">>)
        c  == class_by_name(st, st.classes, clean_target_class_name)
        blocks == st.M[methods[s]].basic_blocks
        b  == block_by_id(st, blocks, invocation[2])
        target_methods == st.C[st.classes[c]].methods
        clean_target_method_name == Split(target_method_name, "(")[1]
        t  == method_by_name(st, target_methods, clean_target_method_name)
        target_blocks == st.M[target_methods[t]].basic_blocks
        fail(what) == [acc EXCEPT !.broke = TRUE,
                                  !.report = Append(@, <<class_name, what,
                                                         target_class_name, target_method_name>>)]
        raise == [acc EXCEPT !.raised = TRUE]
    IN  IF acc.raised \/ acc.broke THEN acc
        ELSE IF MeetsNone(methods, s) THEN raise
        ELSE IF s = 0 THEN fail("source method")
        ELSE IF c = 0 THEN fail("target class")
        ELSE IF MeetsNone(blocks, b) THEN raise
        ELSE IF b = 0 THEN fail("source block")
        ELSE IF MeetsNone(target_methods, t) THEN raise
        ELSE IF t = 0 THEN fail("target method")
        ELSE IF target_blocks = <<>> \/ target_blocks[1] = None THEN raise
        ELSE IF st.M[target_methods[t]].return_type # <<"V">> /\ Last(target_blocks) = None
        THEN raise
        ELSE [acc EXCEPT !.st = connect_global(st, methods[s], blocks[b], target_methods[t])]

RECURSIVE resolve_global_class(_, _, _)
resolve_global_class(acc, class, invocations) ==
    IF invocations = <<>> THEN acc
    ELSE resolve_global_class(resolve_global_invocation(acc, class, Head(invocations)),
                              class, Tail(invocations))

\* lines 486-488: every class in turn; each class's loop starts unbroken
RECURSIVE resolve_global_classes(_, _)
resolve_global_classes(acc, classes) ==
    IF classes = <<>> THEN acc
    ELSE resolve_global_classes(
             resolve_global_class([acc EXCEPT !.broke = FALSE], Head(classes),
                                  acc.st.C[Head(classes)].invocations_global),
             Tail(classes))

resolve_global_run(st) ==
    resolve_global_classes([st |-> st, report |-> <<>>, raised |-> FALSE, broke |-> FALSE],
                           st.classes)

resolve_global_invocations(st) == resolve_global_run(st).st

resolve_global_report(st) == resolve_global_run(st).report

resolve_global_invocations_raises(st) == resolve_global_run(st).raised

(***************************************************************************)
(* structures.py: Graph.resolve_library_invocations                        *)
(***************************************************************************)
\* line 584: ".class public final {};".format(target_class_name)
library_class_header(target_class_name) ==
    <<".class", " ", "public", " ", "final", " ">> \o target_class_name \o <<";">>

\* lines 590, 599: ".method T T {}".format(target_method_name)
library_method_directive(target_method_name) ==
    <<".method", " ", "T", " ", "T", " ">> \o target_method_name

\* lines 575-582: the first generated class whose class_path + "/" + class_name
\* is the target class name
generated_class(st, generated_classes, target_class_name) ==
    FirstIndex({i \in 1..Len(generated_classes) :
                   st.C[generated_classes[i]].class_path \o <<"/">>
                       \o st.C[generated_classes[i]].class_name = target_class_name})

\* library_method comparing the name only, as the lookups of the other two
\* phases do (C6 tells the two apart)
library_method_by_name(st, methods, target) ==
    FirstIndex({i \in 1..Len(methods) : st.M[methods[i]].method_name = target.method_name})

\* lines 591-596: the first method of the class with the target's name,
\* parameter types and return type
library_method(st, methods, target) ==
    FirstIndex({i \in 1..Len(methods) :
                   /\ st.M[methods[i]].method_name = target.method_name
                   /\ st.M[methods[i]].param_types = target.param_types
                   /\ st.M[methods[i]].return_type = target.return_type})

\* lines 584-586: a new class for the target
generate_class(acc, target_class_name) ==
    [acc EXCEPT !.st.C = Store(@, acc.st.class_id,
                               SmaliClass(acc.st.class_id, library_class_header(target_class_name))),
                !.st.class_id = @ + 1,
                !.generated_classes = Append(@, acc.st.class_id)]

\* generate_method without line 614's block_id += 1: the next block created
\* gets the dummy block's id again (C33 tells the two apart)
generate_method_same_block_id(st, target_class, target_class_name, target_method_name) ==
    LET target_method == Method(st.method_id, library_method_directive(target_method_name))
        dummy_instruction ==
            Instruction(target_class_name \o <<" ", "->", " ">> \o target_method_name,
                        "DUMMY", st.instruction_id, 0,
                        target_method.method_id, st.C[target_class].class_id, st.block_id)
        dummy_block == BasicBlock(st.block_id, dummy_instruction)
    IN  add_basic_block(
            add_method(
                [st EXCEPT !.M = Store(@, target_method.method_id, target_method),
                           !.B = Store(@, dummy_block.block_id, dummy_block),
                           !.method_id = @ + 1,
                           !.instruction_id = @ + 1],
                target_class, target_method.method_id),
            target_method.method_id, dummy_block.block_id)

\* lines 599-617: a new method for the target, with its dummy block
generate_method(st, target_class, target_class_name, target_method_name) ==
    LET target_method == Method(st.method_id, library_method_directive(target_method_name))
        dummy_instruction ==
            Instruction(target_class_name \o <<" ", "->", " ">> \o target_method_name,
                        "DUMMY", st.instruction_id, 0,
                        target_method.method_id, st.C[target_class].class_id, st.block_id)
        dummy_block == BasicBlock(st.block_id, dummy_instruction)
    IN  add_basic_block(
            add_method(
                [st EXCEPT !.M = Store(@, target_method.method_id, target_method),
                           !.B = Store(@, dummy_block.block_id, dummy_block),
                           !.method_id = @ + 1,
                           !.block_id = @ + 1,
                           !.instruction_id = @ + 1],
                target_class, target_method.method_id),
            target_method.method_id, dummy_block.block_id)

\* connect_library adding the call edge only, whatever the target returns (C14
\* tells the two apart)
connect_library_call_only(st, src_block, target_method) ==
    LET target_block == st.M[target_method].basic_blocks[1]
    IN  add_parent_block_id(add_child_block_id(st, src_block, st.B[target_block].block_id),
                            target_block, st.B[src_block].block_id)

\* lines 644-650
connect_library(st, src_block, target_method) ==
    LET target_block == st.M[target_method].basic_blocks[1]
        target_final == Last(st.M[target_method].basic_blocks)
        s1 == add_child_block_id(st, src_block, st.B[target_block].block_id)
        s2 == add_parent_block_id(s1, target_block, st.B[src_block].block_id)
        s3 == add_child_block_id(s2, target_final, st.B[src_block].block_id)
        s4 == add_parent_block_id(s3, src_block, st.B[target_final].block_id)
    IN  IF st.M[target_method].return_type # <<"V">> THEN s4 ELSE s2

\* lines 572-650, one iteration: acc is (st, generated_classes, report, raised,
\* broke)
resolve_library_invocation(acc, class, invocation) ==
    LET target_class_name  == invocation[3]
        target_method_name == invocation[4]
        g    == generated_class(acc.st, acc.generated_classes, target_class_name)
        acc1 == IF g = 0 THEN generate_class(acc, target_class_name) ELSE acc
        target_class == IF g = 0 THEN Last(acc1.generated_classes)
                        ELSE acc.generated_classes[g]
        target == process_method_directive(library_method_directive(target_method_name))
        m    == library_method(acc1.st, acc1.st.C[target_class].methods, target)
        st2  == IF m = 0
                THEN generate_method(acc1.st, target_class, target_class_name, target_method_name)
                ELSE acc1.st
        target_method == IF m = 0 THEN Last(st2.C[target_class].methods)
                         ELSE acc1.st.C[target_class].methods[m]
        acc2 == [acc1 EXCEPT !.st = st2]
        methods == st2.C[class].methods
        s    == method_by_id(st2, methods, invocation[1])
        blocks == st2.M[methods[s]].basic_blocks
        b    == block_by_id(st2, blocks, invocation[2])
        fail(what) == [acc2 EXCEPT !.broke = TRUE,
                                   !.report = Append(@, <<st2.C[class].class_name, what>>)]
    IN  IF acc.raised \/ acc.broke THEN acc
        ELSE IF process_method_directive_raises(library_method_directive(target_method_name))
        THEN [acc1 EXCEPT !.raised = TRUE]
        ELSE IF MeetsNone(methods, s) THEN [acc2 EXCEPT !.raised = TRUE]
        ELSE IF s = 0 THEN fail("source method")
        ELSE IF MeetsNone(blocks, b) THEN [acc2 EXCEPT !.raised = TRUE]
        ELSE IF b = 0 THEN fail("source block")
        ELSE [acc2 EXCEPT !.st = connect_library(st2, blocks[b], target_method)]

RECURSIVE resolve_library_class(_, _, _)
resolve_library_class(acc, class, invocations) ==
    IF invocations = <<>> THEN acc
    ELSE resolve_library_class(resolve_library_invocation(acc, class, Head(invocations)),
                               class, Tail(invocations))

\* lines 569-572: every class in turn; each class's loop starts unbroken
RECURSIVE resolve_library_classes(_, _)
resolve_library_classes(acc, classes) ==
    IF classes = <<>> THEN acc
    ELSE resolve_library_classes(
             resolve_library_class([acc EXCEPT !.broke = FALSE], Head(classes),
                                   acc.st.C[Head(classes)].invocations_lib),
             Tail(classes))

\* lines 653-654: push the generated classes to the graph
RECURSIVE add_classes(_, _)
add_classes(st, classes) ==
    IF classes = <<>> THEN st
    ELSE add_classes(add_class(st, Head(classes)), Tail(classes))

resolve_library_run(st) ==
    resolve_library_classes([st |-> st, generated_classes |-> <<>>, report |-> <<>>,
                             raised |-> FALSE, broke |-> FALSE],
                            st.classes)

resolve_library_invocations(st) ==
    add_classes(resolve_library_run(st).st, resolve_library_run(st).generated_classes)

resolve_library_report(st) == resolve_library_run(st).report

resolve_library_invocations_raises(st) == resolve_library_run(st).raised

(***************************************************************************)
(* The input: the manifest's activity files and the lines of the class     *)
(* files.  A file's lines are read one at a time; what a file may hold is  *)
(* bounded by the input family the run is given.                           *)
(***************************************************************************)
\* smali/<path>.smali and the descriptor L<path>; of the class it declares
SmaliFile(path) == <<"smali", "/">> \o path \o <<".smali">>

Descriptor(path) == <<"L">> \o path \o <<";">>

PathA == <<"com", "/", "app", "/", "A">>

PathB == <<"com", "/", "app", "/", "B">>

PathS == <<"java", "/", "lang", "/", "S">>

PathT == <<"java", "/", "lang", "/", "T">>

PathStringBuilder == <<"java", "/", "lang", "/", "StringBuilder">>

PathString == <<"java", "/", "lang", "/", "String">>

\* a second class named A, in the package com/app/x
PathXA == <<"com", "/", "app", "/", "x", "/", "A">>

\* a class of the default package (its class path is empty) and a class of the
\* package com (its class path has the one segment Lcom)
PathM == <<"M">>

PathComM == <<"com", "/", "M">>

\* a class named Lcom outside the package com
PathLcom == <<"org", "/", "app", "/", "L", "com">>

\* the class path of a file name: text[len("smali/"):-len(".smali")]
PathOf(file_name) == SubSeq(file_name, 3, Len(file_name) - 1)

ClassLine(path) == <<".class", " ", "public", " ">> \o Descriptor(path)

MethodLine(name, params, ret) == <<".method", " ", "public", " ", name, "(">> \o params \o <<")", ret>>

EndMethodLine == <<".end", " ", "method">>

LabelLine(name) == <<":", name>>

GotoLine(name) == <<"goto", " ", ":", name>>

IfLine(name) == <<"if-", "eqz", " ", "v0,", " ", ":", name>>

ReturnLine == <<"return", "-void">>

ConstLine == <<"const", " ", "v0,", " ", "0x1">>

SwitchOpLine(name) == <<"packed-switch", " ", "v0,", " ", ":", name>>

DotLine == <<".line", " ", "7">>

InvokeLine(kind, path, name, params, ret) ==
    <<"invoke", kind, " ", "{p0},", " ">> \o Descriptor(path)
        \o <<"->", name, "(">> \o params \o <<")", ret>>

\* a call of StringBuilder.append(String), which returns a StringBuilder
AppendLine ==
    <<"invoke", "-virtual", " ", "{v0,", " ", "v1},", " ">> \o Descriptor(PathStringBuilder)
        \o <<"->", "append", "(">> \o Descriptor(PathString) \o <<")">>
        \o Descriptor(PathStringBuilder)

PSwitchStartLine == <<".packed-switch", " ", "0x0">>

PSwitchEndLine == <<".end", " ", "packed-switch">>

SSwitchStartLine == <<".sparse-switch">>

SSwitchEndLine == <<".end", " ", "sparse-switch">>

AnnotationStartLine == <<".annotation", " ", "system">>

AnnotationEndLine == <<".end", " ", "annotation">>

FieldStartLine == <<".field", " ", "x:I">>

FieldEndLine == <<".end", " ", "field">>

SuperLine == <<".super", " ">> \o Descriptor(PathS)

SourceLine == <<".source", " ", "\"", "A.java", "\"">>

\* the bounds: how many lines a file of each family holds after its first
\* lines (Prologue), not counting the .end method lines
MaxBranchLines == 6

MaxSwitchLines == 4

MaxRegionLines == 4

MaxLocalLines == 4

MaxLibraryLines == 4

MaxCrossLines == 3

MaxPackedLines == 6

MaxFlatLines == 2

MaxNamesLines == 2

Families ==
    {"branch", "switch", "packed", "regions", "local", "library", "cross", "pair", "twice",
     "flat", "names"}

MaxLines(f) ==
    CASE f = "branch"  -> MaxBranchLines
      [] f = "switch"  -> MaxSwitchLines
      [] f = "regions" -> MaxRegionLines
      [] f = "local"   -> MaxLocalLines
      [] f = "library" -> MaxLibraryLines
      [] f = "cross"   -> MaxCrossLines
      [] f = "pair"    -> MaxCrossLines
      [] f = "packed"  -> MaxPackedLines
      [] f = "twice"   -> 0
      [] f = "flat"    -> MaxFlatLines
      [] f = "names"   -> MaxNamesLines

\* extract_activity_files: the files of the manifest's activities
Manifest(f) ==
    CASE f = "pair"  -> <<SmaliFile(PathA), SmaliFile(PathB)>>
      [] f = "twice" -> <<SmaliFile(PathA), SmaliFile(PathA)>>
      [] f = "flat"  -> <<SmaliFile(PathM), SmaliFile(PathComM)>>
      [] f = "names" -> <<SmaliFile(PathA), SmaliFile(PathXA)>>
      [] OTHER       -> <<SmaliFile(PathA)>>

\* the files that may be absent from the directory
MayBeMissing(f) == IF f = "pair" THEN {SmaliFile(PathB)} ELSE {}

\* the lines a file of the family may hold after its .class line
Alphabet(f, file_name) ==
    CASE f = "branch" ->
           { LabelLine("L0"), LabelLine("L1"), ConstLine, IfLine("L1"), ReturnLine }
      [] f = "switch" ->
           { MethodLine("f", <<>>, "V"), LabelLine("L0"), GotoLine("L0"), GotoLine("L1"),
             ReturnLine, SwitchOpLine("L0"), PSwitchStartLine, PSwitchEndLine,
             SSwitchStartLine, SSwitchEndLine }
      [] f = "regions" ->
           { MethodLine("f", <<>>, "V"), AnnotationStartLine, AnnotationEndLine,
             FieldStartLine, FieldEndLine, ConstLine, ReturnLine, DotLine,
             SuperLine, SourceLine }
      [] f = "packed" ->
           { SwitchOpLine("pdata"), LabelLine("pdata"),
             LabelLine("c0"), LabelLine("c1"), PSwitchStartLine, PSwitchEndLine }
      [] f = "local" ->
           { MethodLine("f", <<>>, "I"), MethodLine("g", <<>>, "V"),
             MethodLine("h", <<>>, "I"), ReturnLine,
             InvokeLine("-direct", PathA, "f", <<>>, "I"),
             InvokeLine("-direct", PathA, "g", <<>>, "V"),
             InvokeLine("-direct", PathA, "h", <<>>, "I"),
             InvokeLine("-virtual", PathA, "f", <<>>, "I") }
      [] f = "library" ->
           { MethodLine("f", <<>>, "V"), ReturnLine,
             InvokeLine("-virtual", PathS, "f", <<>>, "I"),
             InvokeLine("-virtual", PathS, "f", <<"I">>, "I"),
             InvokeLine("-virtual", PathS, "g", <<>>, "V"),
             InvokeLine("-virtual", PathT, "f", <<>>, "I"),
             AppendLine }
      [] f = "cross" ->
           { MethodLine("f", <<>>, "V"), ReturnLine,
             InvokeLine("-virtual", PathB, "h", <<>>, "V"),
             InvokeLine("-virtual", PathLcom, "f", <<>>, "I"),
             InvokeLine("-virtual", PathS, "f", <<>>, "I") }
      [] f = "pair" ->
           IF file_name = SmaliFile(PathA)
           THEN { MethodLine("f", <<>>, "V"), ReturnLine,
                  InvokeLine("-virtual", PathB, "h", <<>>, "V"),
                  InvokeLine("-virtual", PathB, "g", <<>>, "I"),
                  InvokeLine("-virtual", PathS, "f", <<>>, "I") }
           ELSE { MethodLine("h", <<>>, "V"), MethodLine("g", <<>>, "I"), ReturnLine,
                  InvokeLine("-virtual", PathS, "f", <<>>, "I") }
      [] f = "twice" -> {}
      [] f = "flat" ->
           { ReturnLine, InvokeLine("-virtual", PathS, "f", <<>>, "I"),
             InvokeLine("-direct", PathOf(file_name), "f", <<>>, "V") }
      [] f = "names" ->
           IF file_name = SmaliFile(PathA)
           THEN { ReturnLine, InvokeLine("-virtual", PathXA, "f", <<>>, "V") }
           ELSE { ReturnLine }

\* whether the lines read so far leave a .method open
InMethod(read) ==
    \E i \in 1..Len(read) :
        /\ Match("method_start", read[i])
        /\ \A j \in (i + 1)..Len(read) : ~Match("method_end", read[j])

\* the lines every file of the family starts with
Prologue(f, file_name) ==
    CASE f \in {"branch", "packed", "flat", "names"} ->
           <<ClassLine(PathOf(file_name)), MethodLine("f", <<>>, "V")>>
      [] f = "twice" ->
           <<ClassLine(PathOf(file_name)), MethodLine("f", <<>>, "V"), ReturnLine,
             EndMethodLine>>
      [] OTHER -> <<ClassLine(PathOf(file_name))>>

\* whether the lines read so far leave the data of a switch open
InSwitchData(read) ==
    \E i \in 1..Len(read) :
        /\ Match("pswitch_start", read[i]) \/ Match("sswitch_start", read[i])
        /\ \A j \in (i + 1)..Len(read) :
               ~Match("pswitch_end", read[j]) /\ ~Match("sswitch_end", read[j])

\* the lines read since the last .method line
RECURSIVE MethodLines(_)
MethodLines(read) ==
    IF read = <<>> \/ Match("method_start", Last(read)) THEN {}
    ELSE {Last(read)} \cup MethodLines(Front(read))

\* the lines the open file may hold next: the prologue first; a .method, .super
\* or .source line only outside a method, and a method declared once in a
\* file; an instruction only inside a method, a label once in a method, and
\* in the data of a switch only labels and the end of the data, which ends
\* only where data is open; .end method wherever a method is open
NextLines(f, file_name, read) ==
    IF Len(read) < Len(Prologue(f, file_name))
    THEN {Prologue(f, file_name)[Len(read) + 1]}
    ELSE { l \in Alphabet(f, file_name) :
             /\ Len(read) - Len(Prologue(f, file_name))
                    - Cardinality({i \in 1..Len(read) : Match("method_end", read[i])})
                    < MaxLines(f)
             /\ IF InMethod(read)
                THEN /\ ~Match("method_start", l) /\ ~Match("super", l) /\ ~Match("source", l)
                     /\ Match("label", l) => l \notin MethodLines(read)
                     /\ InSwitchData(read) =>
                            \/ Match("label", l)
                            \/ Match("pswitch_end", l) \/ Match("sswitch_end", l)
                     /\ Match("pswitch_end", l) \/ Match("sswitch_end", l) =>
                            InSwitchData(read)
                ELSE /\ Head(l) \in {".method", ".super", ".source", ".annotation", ".field", ".end"}
                     /\ Match("method_start", l) => ~InSeq(l, read) }
         \cup (IF InMethod(read) THEN {EndMethodLine} ELSE {})

\* a line of an expansion file: Class::method, or Class::* for all methods
TargetLine(class, method) == <<class, "::", method>>

\* the expansion files (-e) the hybrid views of a family's runs are asked
\* with; the families without an invoke are not asked for a hybrid view
ExpFiles(f) ==
    CASE f = "local" ->
           { << <<"#", " ", "targets">>, TargetLine("A", "f") \o <<" ">>, <<>> >>,
             << TargetLine("A", "*") >> }
      [] f = "library" ->
           { << TargetLine("S", "f") >>,
             << TargetLine("S", "*"), TargetLine("A", "f") >> }
      [] f \in {"cross", "pair", "twice"} ->
           { << TargetLine("B", "h") >>,
             << TargetLine("B", "*"), TargetLine("A", "f") >> }
      [] OTHER -> {}

\* where the open file may end: outside a method, or cut short behind the
\* data of a switch
EofAllowed(f, file_name, read) ==
    /\ Len(read) >= Len(Prologue(f, file_name))
    /\ \/ ~InMethod(read)
       \/ Match("pswitch_end", Last(read))
       \/ Match("sswitch_end", Last(read))

(***************************************************************************)
(* extract.py: the driver                                                  *)
(***************************************************************************)
Init ==
    /\ family \in Families
    /\ state = Graph([i \in 1..Len(Manifest(family)) |-> FileItem(Manifest(family)[i])])
    /\ pc = "open"
    /\ file_idx = 0
    /\ line_num = 0
    /\ lines_read = <<>>
    /\ response = [global |-> <<>>, library |-> <<>>]
    /\ files_read = <<>>
    /\ output = [format |-> "", type |-> "", exp_methods |-> <<>>, text |-> <<>>]

\* the file the for loop of line 53 is at
file_item == state.file_list[file_idx]

\* lines 114-116: strip the line, cut it at the first "#"
Clean(smali_instr) == Split(Strip(smali_instr), "#")[1]

\* lines 119-164: the branch of the driver's chain a cleaned line takes
Dispatch(instr) ==
    IF Match("annotation_start", instr) THEN "annotation_start"
    ELSE IF Match("annotation_end", instr) THEN "annotation_end"
    ELSE IF Match("field_start", instr) THEN "field_start"
    ELSE IF Match("field_end", instr) THEN "field_end"
    ELSE IF Match("pswitch_start", instr) THEN "pswitch_start"
    ELSE IF Match("pswitch_end", instr) THEN "pswitch_end"
    ELSE IF Match("sswitch_start", instr) THEN "sswitch_start"
    ELSE IF Match("sswitch_end", instr) THEN "sswitch_end"
    ELSE IF Match("method_start", instr) THEN "method_start"
    ELSE IF Match("method_end", instr) THEN "method_end"
    ELSE "else"

\* the flags a branch sets before it calls process_instruction
FlagsBefore(branch, st) ==
    CASE branch = "annotation_start" -> [st EXCEPT !.ANNOTATION_FLAG = TRUE]
      [] branch = "field_start"      -> [st EXCEPT !.FIELD_FLAG = TRUE]
      [] branch = "pswitch_start"    -> [st EXCEPT !.SWITCH_FLAG = TRUE, !.FIELD_FLAG = FALSE]
      [] branch = "sswitch_start"    -> [st EXCEPT !.SWITCH_FLAG = TRUE, !.FIELD_FLAG = FALSE]
      [] branch = "method_start"     -> [st EXCEPT !.METHOD_FLAG = TRUE, !.FIELD_FLAG = FALSE]
      [] OTHER                       -> st

\* the flags a branch clears after process_instruction has returned
FlagsAfter(branch, st) ==
    CASE branch = "annotation_end" -> [st EXCEPT !.ANNOTATION_FLAG = FALSE]
      [] branch = "field_end"      -> [st EXCEPT !.FIELD_FLAG = FALSE]
      [] branch = "pswitch_end"    -> [st EXCEPT !.SWITCH_FLAG = FALSE]
      [] branch = "sswitch_end"    -> [st EXCEPT !.SWITCH_FLAG = FALSE]
      [] branch = "method_end"     -> [st EXCEPT !.METHOD_FLAG = FALSE]
      [] OTHER                     -> st

\* line 54: the next entry of the queue is a str, file_item.file_name raises
\* AttributeError
FileNameRaises ==
    /\ pc = "open"
    /\ file_idx < Len(state.file_list)
    /\ ~HasFileName(state.file_list[file_idx + 1])
    /\ pc' = "crashed"
    /\ file_idx' = file_idx + 1
    /\ files_read' = Append(files_read, [opened |-> FALSE, lines |-> <<>>])
    /\ UNCHANGED <<state, line_num, lines_read, response, family, output>>

\* OpenFile without lines 96-104: the flags and the active class, method and
\* block of the file before stay (C22 tells the two apart)
OpenFile_keeps_cursor ==
    /\ pc = "open"
    /\ file_idx < Len(state.file_list)
    /\ HasFileName(state.file_list[file_idx + 1])
    /\ pc' = "lines"
    /\ file_idx' = file_idx + 1
    /\ line_num' = 0
    /\ lines_read' = <<>>
    /\ files_read' = Append(files_read, [opened |-> TRUE, lines |-> <<>>])
    /\ UNCHANGED <<state, response, family, output>>

\* lines 53-62, 96-104: the next file of the queue is opened and read
OpenFile ==
    /\ pc = "open"
    /\ file_idx < Len(state.file_list)
    /\ HasFileName(state.file_list[file_idx + 1])
    /\ state' = [state EXCEPT !.ANNOTATION_FLAG = FALSE,
                              !.FIELD_FLAG = FALSE,
                              !.SWITCH_FLAG = FALSE,
                              !.METHOD_FLAG = FALSE,
                              !.active_class = None,
                              !.active_method = None,
                              !.active_block = None]
    /\ pc' = "lines"
    /\ file_idx' = file_idx + 1
    /\ line_num' = 0
    /\ lines_read' = <<>>
    /\ files_read' = Append(files_read, [opened |-> TRUE, lines |-> <<>>])
    /\ UNCHANGED <<response, family, output>>

\* lines 63-88: the next file of the queue cannot be opened
OpenFail ==
    /\ pc = "open"
    /\ file_idx < Len(state.file_list)
    /\ HasFileName(state.file_list[file_idx + 1])
    /\ state.file_list[file_idx + 1].file_name \in MayBeMissing(family)
    /\ state' = [state EXCEPT !.file_list[file_idx + 1].make_library = TRUE]
    /\ file_idx' = file_idx + 1
    /\ files_read' = Append(files_read, [opened |-> FALSE, lines |-> <<>>])
    /\ UNCHANGED <<pc, line_num, lines_read, response, family, output>>

\* lines 107-164: one line of the open file, taking the given branch
ReadLine(branch) ==
    /\ pc = "lines"
    /\ \E smali_instr \in NextLines(family, file_item.file_name, lines_read) :
          LET instr == Clean(smali_instr)
              pre   == FlagsBefore(branch, state)
          IN  /\ Dispatch(instr) = branch
              /\ lines_read' = Append(lines_read, smali_instr)
              /\ files_read' = [files_read EXCEPT ![file_idx].lines = Append(@, smali_instr)]
              /\ line_num' = line_num + 1
              /\ IF process_instruction_raises(instr, line_num + 1, pre)
                 THEN pc' = "crashed" /\ state' = state
                 ELSE /\ pc' = pc
                      /\ state' = FlagsAfter(branch, process_instruction(instr, line_num + 1, pre))
    /\ UNCHANGED <<file_idx, response, family, output>>

AnnotationStart == ReadLine("annotation_start")

AnnotationEnd == ReadLine("annotation_end")

FieldStart == ReadLine("field_start")

FieldEnd == ReadLine("field_end")

PSwitchStart == ReadLine("pswitch_start")

PSwitchEnd == ReadLine("pswitch_end")

SSwitchStart == ReadLine("sswitch_start")

SSwitchEnd == ReadLine("sswitch_end")

MethodStart == ReadLine("method_start")

MethodEnd == ReadLine("method_end")

OtherLine == ReadLine("else")

\* lines 167-180: the end of the file
end_of_file(st) ==
    LET flushed == IF st.active_block # None
                   THEN add_basic_block(st, st.active_method, st.active_block)
                   ELSE st
        attached == add_method(flushed, st.active_class, st.active_method)
    IN  add_class(resolve_local_invocations(attached, st.active_class), st.active_class)

end_of_file_raises(st) ==
    \/ st.active_class = None
    \/ resolve_local_invocations_raises(
           add_method(IF st.active_block # None
                      THEN add_basic_block(st, st.active_method, st.active_block)
                      ELSE st,
                      st.active_class, st.active_method),
           st.active_class)

EndOfFile ==
    /\ pc = "lines"
    /\ EofAllowed(family, file_item.file_name, lines_read)
    /\ IF end_of_file_raises(state)
       THEN pc' = "crashed" /\ state' = state
       ELSE pc' = "open" /\ state' = end_of_file(state)
    /\ UNCHANGED <<file_idx, line_num, lines_read, response, family, files_read, output>>

\* ResolveGlobal inside the loop of line 53: the phase runs between two files
\* also while entries of the queue are left (C31 tells the two apart)
ResolveGlobal_in_loop ==
    /\ pc = "open"
    /\ IF resolve_global_invocations_raises(state)
       THEN pc' = "crashed" /\ UNCHANGED <<state, response>>
       ELSE /\ pc' = "library"
            /\ state' = resolve_global_invocations(state)
            /\ response' = [response EXCEPT !.global = resolve_global_report(state)]
    /\ UNCHANGED <<file_idx, line_num, lines_read, family, files_read, output>>

\* lines 182-187: the queue is drained
ResolveGlobal ==
    /\ pc = "open"
    /\ file_idx = Len(state.file_list)
    /\ IF resolve_global_invocations_raises(state)
       THEN pc' = "crashed" /\ UNCHANGED <<state, response>>
       ELSE /\ pc' = "library"
            /\ state' = resolve_global_invocations(state)
            /\ response' = [response EXCEPT !.global = resolve_global_report(state)]
    /\ UNCHANGED <<file_idx, line_num, lines_read, family, files_read, output>>

\* lines 189-193
ResolveLibrary ==
    /\ pc = "library"
    /\ IF resolve_library_invocations_raises(state)
       THEN pc' = "crashed" /\ UNCHANGED <<state, response>>
       ELSE /\ pc' = "done"
            /\ state' = resolve_library_invocations(state)
            /\ response' = [response EXCEPT !.library = resolve_library_report(state)]
    /\ UNCHANGED <<file_idx, line_num, lines_read, family, files_read, output>>

(***************************************************************************)
(* output_graph.py: create_summary_feature_vector, output_cfg_coo          *)
(***************************************************************************)
\* sep.join(parts) for a separator of several atoms
RECURSIVE JoinText(_, _)
JoinText(parts, sep) ==
    IF parts = <<>> THEN <<>>
    ELSE IF Len(parts) = 1 THEN parts[1]
    ELSE parts[1] \o sep \o JoinText(Tail(parts), sep)

\* the concatenation of a list of lists
RECURSIVE Concat(_)
Concat(lists) == IF lists = <<>> THEN <<>> ELSE Head(lists) \o Concat(Tail(lists))

\* str(list) of a list of ints: "[1, 2, 3]"
StrOfInts(ints) ==
    <<"[">> \o JoinText([i \in 1..Len(ints) |-> <<ToString(ints[i])>>], <<",", " ">>) \o <<"]">>

\* str(list) of a list of lists of ints: "[[1, 2], [3, 4]]"
StrOfVectors(vectors) ==
    <<"[">> \o JoinText([i \in 1..Len(vectors) |-> StrOfInts(vectors[i])], <<",", " ">>) \o <<"]">>

\* lines 76-87: the slot of each count, counted from 0
vector_map ==
    [ numeric_const |-> 0, transfer |-> 1, call |-> 2, arithmetic |-> 3, compare |-> 4,
      move |-> 5, terminate |-> 6, data_declaration |-> 7, num_total_instr |-> 8,
      degree |-> 9, num_instr_in_vertex |-> 10 ]

\* lines 91-113: the itypes each slot counts
vector_itypes ==
    [ numeric_const    |-> {"const"},
      transfer         |-> {"fill_arr", "arr_get", "arr_put", "iget", "iput", "sget", "sput",
                            "instance_of"},
      call             |-> {"invoke"},
      arithmetic       |-> {"neg", "not", "add", "sub", "mul", "div", "rem", "l_and", "l_or",
                            "l_xor", "shift_l", "shift_r", "u_shift_r", "r_sub"},
      compare          |-> {"p_switch", "s_switch", "cmp", "if"},
      move             |-> {"move"},
      terminate        |-> {"return"},
      data_declaration |-> {"new_inst", "new_arr", "filled_new_arr"} ]

\* lines 63-119: feature_vector[k] is the element k + 1
create_summary_feature_vector(instructions, degree, num_total_instr) ==
    LET slot(k) == CHOOSE name \in DOMAIN vector_map : vector_map[name] = k
        count(itypes) ==
            Cardinality({i \in 1..Len(instructions) : instructions[i].itype \in itypes})
    IN  [k \in 1..Cardinality(DOMAIN vector_map) |->
            IF slot(k - 1) \in DOMAIN vector_itypes THEN count(vector_itypes[slot(k - 1)])
            ELSE IF slot(k - 1) = "num_total_instr" THEN num_total_instr
            ELSE IF slot(k - 1) = "degree" THEN degree
            ELSE Len(instructions)]

\* lines 138-140: the methods and the blocks the three loops visit, in order
walk_methods(st) ==
    Concat([i \in 1..Len(st.classes) |-> st.C[st.classes[i]].methods])

walk_blocks(st) ==
    LET methods == walk_methods(st)
    IN  Concat([i \in 1..Len(methods) |->
                   IF methods[i] = None THEN <<>> ELSE st.M[methods[i]].basic_blocks])

\* the AttributeError of a None method or block, the IndexError of line 161
output_cfg_coo_raises(st) ==
    \/ InSeq(None, walk_methods(st))
    \/ InSeq(None, walk_blocks(st))
    \/ walk_blocks(st) = <<>>

\* lines 122-174: the lines of the file written
output_cfg_coo(st) ==
    LET blocks == walk_blocks(st)
        bb_feature_vectors ==
            [i \in 1..Len(blocks) |->
                create_summary_feature_vector(
                    st.B[blocks[i]].instructions,
                    Len(st.B[blocks[i]].child_block_ids) + Len(st.B[blocks[i]].parent_block_ids),
                    st.instruction_id - 1)]
        feature_row == [i \in 1..Len(blocks) |-> st.B[blocks[i]].block_id]
        feature_col == [i \in 1..Len(blocks) |-> 0]
        adjacency_row == Concat([i \in 1..Len(blocks) |-> st.B[blocks[i]].child_block_ids])
        adjacency_col ==
            Concat([i \in 1..Len(blocks) |->
                       [k \in 1..Len(st.B[blocks[i]].child_block_ids) |->
                           st.B[blocks[i]].block_id]])
    IN  << <<ToString(Len(bb_feature_vectors)), ",", ToString(Len(bb_feature_vectors[1]))>>,
           <<>>,
           StrOfVectors(bb_feature_vectors),
           StrOfInts(feature_row),
           StrOfInts(feature_col),
           <<>>,
           StrOfInts(adjacency_row),
           StrOfInts(adjacency_col) >>

(***************************************************************************)
(* output_graph.py: extract_target_methods, restricted_hybrid_coo          *)
(***************************************************************************)
\* lines 226-241: the lines of the expansion file, stripped, without the
\* lines that hold a "#" and without the empty lines
extract_target_methods(exp_file) ==
    SelectSeq([i \in 1..Len(exp_file) |-> Strip(exp_file[i])],
              LAMBDA x : ~InSeq("#", x) /\ x # <<>>)

\* the (class, method) pairs the loops over graph.classes and its methods
\* visit, in order
walk_class_methods(st) ==
    Concat([i \in 1..Len(st.classes) |->
               [k \in 1..Len(st.C[st.classes[i]].methods) |->
                   <<st.classes[i], st.C[st.classes[i]].methods[k]>>]])

\* lines 384-401: the keys of global_id_map in the order they are set, "m" and
\* the id of a method, then "b" and the id of each of its blocks
global_id_keys(st) ==
    LET methods == walk_methods(st)
    IN  Concat([i \in 1..Len(methods) |->
                   <<<<"m", st.M[methods[i]].method_id>>>>
                   \o [k \in 1..Len(st.M[methods[i]].basic_blocks) |->
                          <<"b", st.B[st.M[methods[i]].basic_blocks[k]].block_id>>]])

\* global_id_map[key]: global_idx when the key was last set
global_id_map(st, key) ==
    LET keys == global_id_keys(st)
        set  == {i \in 1..Len(keys) : keys[i] = key}
    IN  (CHOOSE i \in set : \A k \in set : k <= i) - 1

\* lines 391-394: the key of a method in method_id_map
method_key(st, class, method) ==
    st.C[class].class_name \o <<"::">> \o st.M[method].method_name

\* line 396: method_block_map[method_id], the id of the method's first block
method_block_map(st, method_id) ==
    LET methods == walk_methods(st)
        m == methods[CHOOSE i \in 1..Len(methods) :
                         /\ st.M[methods[i]].method_id = method_id
                         /\ \A k \in (i + 1)..Len(methods) :
                                st.M[methods[k]].method_id # method_id]
    IN  st.B[st.M[m].basic_blocks[1]].block_id

\* lines 398-401: the keys of block_method_map
block_method_keys(st) ==
    {st.B[walk_blocks(st)[i]].block_id : i \in 1..Len(walk_blocks(st))}

\* lines 403-418: the ids of the methods the targets name, a target with "*"
\* by its class and any other target by its class and method
exp_method_ids(st, exp_targets) ==
    LET pairs == walk_class_methods(st)
    IN  {st.M[pairs[i][2]].method_id : i \in
            {i \in 1..Len(pairs) :
                \E t \in 1..Len(exp_targets) :
                    IF InSeq("*", exp_targets[t])
                    THEN Split(exp_targets[t], "::")[1]
                             = Split(method_key(st, pairs[i][1], pairs[i][2]), "::")[1]
                    ELSE exp_targets[t] = method_key(st, pairs[i][1], pairs[i][2])}}

\* lines 420-429, 434-442: whether a method is expanded, and the ids of the
\* methods that are
expand(st, method, exp_targets) ==
    \E i \in 1..Len(st.M[method].calls_out) :
        st.M[method].calls_out[i] \in exp_method_ids(st, exp_targets)

actual_expanded_methods(st, exp_targets) ==
    {st.M[walk_methods(st)[i]].method_id : i \in
        {i \in 1..Len(walk_methods(st)) : expand(st, walk_methods(st)[i], exp_targets)}}

\* lines 444-536: the vertices an expanded method adds, one per block: the
\* vertex, its feature vector and the vertices its edges go to
expanded_vertices(st, method) ==
    LET blocks == st.M[method].basic_blocks
    IN  [k \in 1..Len(blocks) |->
            [ src_id  |-> global_id_map(st, <<"b", st.B[blocks[k]].block_id>>),
              vector  |-> create_summary_feature_vector(
                              st.B[blocks[k]].instructions,
                              Len(st.B[blocks[k]].child_block_ids)
                                  + Len(st.B[blocks[k]].parent_block_ids),
                              st.instruction_id - 1),
              targets |-> [t \in 1..Len(st.B[blocks[k]].child_block_ids) |->
                              global_id_map(st, <<"b", st.B[blocks[k]].child_block_ids[t]>>)] ]]

\* lines 510-551: the vertex of a method that is not expanded
method_vertex(st, method) ==
    LET blocks == st.M[method].basic_blocks
    IN  [ src_id  |-> global_id_map(st, <<"b", method_block_map(st, st.M[method].method_id)>>),
          vector  |-> create_summary_feature_vector(
                          Concat([k \in 1..Len(blocks) |-> st.B[blocks[k]].instructions]),
                          Len(st.M[method].calls_out) + Len(st.M[method].calls_in),
                          st.instruction_id - 1),
          targets |-> [t \in 1..Len(st.M[method].calls_out) |->
                          global_id_map(st,
                              <<"b", method_block_map(st, st.M[method].calls_out[t])>>)] ]

\* lines 431-551: the vertices of all methods, in the order they are added
hybrid_vertices(st, exp_targets) ==
    LET methods == walk_methods(st)
    IN  Concat([i \in 1..Len(methods) |->
                   IF expand(st, methods[i], exp_targets)
                   THEN expanded_vertices(st, methods[i])
                   ELSE <<method_vertex(st, methods[i])>>])

\* the exceptions of both hybrid views: the AttributeError of a None method or
\* block, the IndexError of a method without blocks (lines 264, 396), the
\* KeyError of block_method_map[target] (lines 318, 480)
hybrid_raises(st, exp_targets) ==
    \/ InSeq(None, walk_methods(st))
    \/ \E i \in 1..Len(walk_methods(st)) :
          LET blocks == st.M[walk_methods(st)[i]].basic_blocks
          IN  blocks = <<>> \/ InSeq(None, blocks)
    \/ \E i \in 1..Len(walk_methods(st)) :
          LET method == walk_methods(st)[i]
              blocks == st.M[method].basic_blocks
          IN  /\ expand(st, method, exp_targets)
              /\ \E k \in 1..Len(blocks) :
                     \E t \in 1..Len(st.B[blocks[k]].child_block_ids) :
                         st.B[blocks[k]].child_block_ids[t] \notin block_method_keys(st)

\* the elements of a set of numbers in ascending order: list.sort()
RECURSIVE Sorted(_)
Sorted(set) ==
    IF set = {} THEN <<>>
    ELSE LET least == CHOOSE x \in set : \A y \in set : x <= y
         IN  <<least>> \o Sorted(set \ {least})

\* lines 585-604: reduction_map after the given (vertex, target) pairs, from
\* the map of the vertices that have a feature vector
RECURSIVE reduce_targets(_, _)
reduce_targets(reduction_map, targets) ==
    IF targets = <<>> THEN reduction_map
    ELSE reduce_targets(
             IF Head(targets) \in DOMAIN reduction_map THEN reduction_map
             ELSE (Head(targets) :> Cardinality(DOMAIN reduction_map)) @@ reduction_map,
             Tail(targets))

\* also the KeyError of method_block_map[target] (lines 530, 542) and the
\* IndexError of line 606
restricted_hybrid_coo_raises(st, exp_file) ==
    \/ hybrid_raises(st, extract_target_methods(exp_file))
    \/ \E i \in 1..Len(walk_methods(st)) :
          LET method == walk_methods(st)[i]
          IN  /\ ~expand(st, method, extract_target_methods(exp_file))
              /\ \E t \in 1..Len(st.M[method].calls_out) :
                     \A k \in 1..Len(walk_methods(st)) :
                         st.M[walk_methods(st)[k]].method_id # st.M[method].calls_out[t]
    \/ walk_methods(st) = <<>>

\* lines 606-613: the lines of the file written for the lists built
hybrid_coo_output(hybrid_feature_vectors, feature_row, feature_col, adjacency_row, adjacency_col) ==
    << <<ToString(Len(hybrid_feature_vectors)), ",",
         ToString(Len(hybrid_feature_vectors[1]))>>,
       <<>>,
       StrOfVectors(hybrid_feature_vectors),
       StrOfInts(feature_row),
       StrOfInts(feature_col),
       <<>>,
       StrOfInts(adjacency_row),
       StrOfInts(adjacency_col) >>

\* lines 585-604: the second loop over vert_list, with edges_of[i] the targets
\* of vert_list[i] and first_map the reduction_map the first loop leaves
hybrid_coo_edges(hybrid_feature_vectors, vert_list, edges_of, first_map) ==
    LET all_targets == Concat(edges_of)
        reduction_map == reduce_targets(first_map, all_targets)
    IN  hybrid_coo_output(
            hybrid_feature_vectors,
            [i \in 1..Len(vert_list) |-> first_map[vert_list[i]]],
            [i \in 1..Len(vert_list) |-> 0],
            [i \in 1..Len(all_targets) |-> reduction_map[all_targets[i]]],
            Concat([i \in 1..Len(vert_list) |->
                       [k \in 1..Len(edges_of[i]) |-> first_map[vert_list[i]]]]))

\* lines 566-583: vert_list, and the first loop over it; feature_vectors[v] is
\* the vector set last for the vertex v, edges[v] all the targets added to it
hybrid_coo_vertices(added, vert_list) ==
    hybrid_coo_edges(
        [i \in 1..Len(vert_list) |->
            added[CHOOSE n \in 1..Len(added) :
                      /\ added[n].src_id = vert_list[i]
                      /\ \A k \in (n + 1)..Len(added) : added[k].src_id # vert_list[i]].vector],
        vert_list,
        [i \in 1..Len(vert_list) |->
            Concat([n \in 1..Len(added) |->
                       IF added[n].src_id = vert_list[i] THEN added[n].targets ELSE <<>>])],
        [v \in {vert_list[i] : i \in 1..Len(vert_list)} |->
            (CHOOSE i \in 1..Len(vert_list) : vert_list[i] = v) - 1])

\* lines 431-583: the vertices added, and those that have a feature vector
hybrid_coo_added(added) ==
    hybrid_coo_vertices(added, Sorted({added[i].src_id : i \in 1..Len(added)}))

\* lines 359-613: the lines of the file written
restricted_hybrid_coo(st, exp_file) ==
    hybrid_coo_added(hybrid_vertices(st, extract_target_methods(exp_file)))

(***************************************************************************)
(* output_graph.py: restricted_hybrid_dot                                  *)
(***************************************************************************)
\* text.replace(old, new) for an atom old; the atom "U+2022" is the bullet that
\* replaces "$"
Replace(text, old, new) ==
    [i \in 1..Len(text) |-> IF text[i] = old THEN new ELSE text[i]]

\* line 18, 47, 288: the colours random.choice may produce for a class, two of
\* the 16^6
ClassColors == {"#0a1b2c", "#d3e4f5"}

\* line 266: block_method_map[block_id], the method that holds the block, the
\* last one if several do
block_method_map(st, block_id) ==
    LET methods == walk_methods(st)
        holds(i) == \E k \in 1..Len(st.M[methods[i]].basic_blocks) :
                        st.B[st.M[methods[i]].basic_blocks[k]].block_id = block_id
        last == CHOOSE i \in 1..Len(methods) :
                    holds(i) /\ \A k \in (i + 1)..Len(methods) : ~holds(k)
    IN  st.M[methods[last]].method_id

\* lines 309-311: the node of a block of an expanded method
block_node(st, block, class_color) ==
    LET instrs == st.B[block].instructions
        instructions ==
            JoinText([i \in 1..Len(instrs) |->
                         <<ToString(instrs[i].line_num), ":", " ">>
                         \o Replace(Replace(instrs[i].instruction, "$", "U+2022"), "\"", "'")],
                     <<"\\l">>) \o <<"\\l">>
    IN  <<"i", ToString(st.B[block].block_id), " ", "[shape=box", " ", "color=", "\"",
          class_color, "\"", " ", "label=", "\"">> \o instructions \o <<"\"", "];">>

\* lines 313-323: the edges of a block of an expanded method
block_edges(st, method, block, exp_targets) ==
    LET intra_method_ids ==
            {st.B[st.M[method].basic_blocks[k]].block_id :
                k \in 1..Len(st.M[method].basic_blocks)}
        children == st.B[block].child_block_ids
    IN  [t \in 1..Len(children) |->
            <<"i", ToString(st.B[block].block_id), " ", "->", " ">>
            \o (IF children[t] \in intra_method_ids
                   \/ block_method_map(st, children[t])
                          \in actual_expanded_methods(st, exp_targets)
                THEN <<"i", ToString(children[t])>>
                ELSE <<ToString(block_method_map(st, children[t]))>>)
            \o <<";">>]

\* line 326: the node of a method that is not expanded
method_node(st, class, method, class_color) ==
    <<ToString(st.M[method].method_id), " ", "[shape=box", " ", "color=", "\"",
      class_color, "\"", " ", "label=", "\"">>
    \o method_key(st, class, method) \o <<"\"", "];">>

\* lines 327-332: the edges of a method that is not expanded
method_edges(st, method, exp_targets) ==
    LET calls_out == st.M[method].calls_out
    IN  [t \in 1..Len(calls_out) |->
            <<ToString(st.M[method].method_id), " ", "->", " ">>
            \o (IF calls_out[t] \in actual_expanded_methods(st, exp_targets)
                THEN <<"i", ToString(method_block_map(st, calls_out[t]))>>
                ELSE <<ToString(calls_out[t])>>)
            \o <<";">>]

\* lines 244-356: the lines of the file written, for the colours drawn
restricted_hybrid_dot(st, exp_file, class_colors) ==
    LET exp_targets == extract_target_methods(exp_file)
        pairs == walk_class_methods(st)
        class_color(class) ==
            class_colors[CHOOSE i \in 1..Len(st.classes) : st.classes[i] = class]
        node_def ==
            Concat([i \in 1..Len(pairs) |->
                       IF expand(st, pairs[i][2], exp_targets)
                       THEN [k \in 1..Len(st.M[pairs[i][2]].basic_blocks) |->
                                block_node(st, st.M[pairs[i][2]].basic_blocks[k],
                                           class_color(pairs[i][1]))]
                       ELSE <<method_node(st, pairs[i][1], pairs[i][2],
                                          class_color(pairs[i][1]))>>])
        edge_def ==
            Concat([i \in 1..Len(pairs) |->
                       IF expand(st, pairs[i][2], exp_targets)
                       THEN Concat([k \in 1..Len(st.M[pairs[i][2]].basic_blocks) |->
                                       block_edges(st, pairs[i][2],
                                                   st.M[pairs[i][2]].basic_blocks[k],
                                                   exp_targets)])
                       ELSE method_edges(st, pairs[i][2], exp_targets)])
    IN  <<<<"digraph", " ", "{">>>> \o node_def \o edge_def \o <<<<"}">>>>

(***************************************************************************)
(* coo_to_dot.py                                                           *)
(***************************************************************************)
\* lines 16-17, 28-32: the vertices of a line of the COO file
coo_vertices(coo_line) ==
    Split(Remove(Remove(Remove(Strip(coo_line), <<"[">>), <<"]">>), <<" ">>), ",")

\* line 43: zip(src_vertices, target_vertices), the sources from the line of
\* adjacency_col and the targets from the line of adjacency_row
coo_edges(coo_lines) ==
    LET src_vertices    == coo_vertices(coo_lines[8])
        target_vertices == coo_vertices(coo_lines[7])
        n == IF Len(src_vertices) < Len(target_vertices)
             THEN Len(src_vertices) ELSE Len(target_vertices)
    IN  [i \in 1..n |-> <<src_vertices[i], target_vertices[i]>>]

\* lines 7-49: the lines of the dot file
coo_to_dot(coo_lines) ==
    <<<<"digraph", " ", "{">>>>
    \o [i \in 1..Len(coo_edges(coo_lines)) |->
           coo_edges(coo_lines)[i][1] \o <<" ", "->", " ">> \o coo_edges(coo_lines)[i][2]
               \o <<";">>]
    \o <<<<"}">>>>

(***************************************************************************)
(* extract.py: the output, and coo_to_dot run on the file written          *)
(***************************************************************************)
\* extract.py lines 218-219: --format coo --type cfg
OutputCfgCoo ==
    /\ pc = "done"
    /\ IF output_cfg_coo_raises(state)
       THEN /\ pc' = "crashed"
            /\ output' = [output EXCEPT !.format = "coo", !.type = "cfg"]
       ELSE /\ pc' = "written"
            /\ output' = [output EXCEPT !.format = "coo", !.type = "cfg",
                                         !.text = output_cfg_coo(state)]
    /\ UNCHANGED <<state, file_idx, line_num, lines_read, response, family, files_read>>

\* extract.py lines 212-216: --format coo --type hybrid -e exp_file
RestrictedHybridCoo ==
    /\ pc = "done"
    /\ \E exp_file \in ExpFiles(family) :
          IF restricted_hybrid_coo_raises(state, exp_file)
          THEN /\ pc' = "crashed"
               /\ output' = [output EXCEPT !.format = "coo", !.type = "hybrid",
                                            !.exp_methods = exp_file]
          ELSE /\ pc' = "written"
               /\ output' = [output EXCEPT !.format = "coo", !.type = "hybrid",
                                            !.exp_methods = exp_file,
                                            !.text = restricted_hybrid_coo(state, exp_file)]
    /\ UNCHANGED <<state, file_idx, line_num, lines_read, response, family, files_read>>

\* extract.py lines 206-210: --format dot --type hybrid -e exp_file
RestrictedHybridDot ==
    /\ pc = "done"
    /\ \E exp_file \in ExpFiles(family) :
          IF hybrid_raises(state, extract_target_methods(exp_file))
          THEN /\ pc' = "crashed"
               /\ output' = [output EXCEPT !.format = "dot", !.type = "hybrid",
                                            !.exp_methods = exp_file]
          ELSE /\ pc' = "written"
               /\ \E class_colors \in [1..Len(state.classes) -> ClassColors] :
                      output' = [output EXCEPT
                                    !.format = "dot", !.type = "hybrid",
                                    !.exp_methods = exp_file,
                                    !.text = restricted_hybrid_dot(state, exp_file,
                                                                   class_colors)]
    /\ UNCHANGED <<state, file_idx, line_num, lines_read, response, family, files_read>>

\* coo_to_dot.py lines 68-69: the COO file is converted
CooToDot ==
    /\ pc = "written"
    /\ output.format = "coo"
    /\ pc' = "converted"
    /\ output' = [output EXCEPT !.format = "dot", !.text = coo_to_dot(output.text)]
    /\ UNCHANGED <<state, file_idx, line_num, lines_read, response, family, files_read>>

Next ==
    \/ FileNameRaises
    \/ OpenFile
    \/ OpenFail
    \/ AnnotationStart
    \/ AnnotationEnd
    \/ FieldStart
    \/ FieldEnd
    \/ PSwitchStart
    \/ PSwitchEnd
    \/ SSwitchStart
    \/ SSwitchEnd
    \/ MethodStart
    \/ MethodEnd
    \/ OtherLine
    \/ EndOfFile
    \/ ResolveGlobal
    \/ ResolveLibrary
    \/ OutputCfgCoo
    \/ RestrictedHybridCoo
    \/ RestrictedHybridDot
    \/ CooToDot

Spec == Init /\ [][Next]_vars

(***************************************************************************)
(* The Program: what the Graph holds of classes, methods, blocks and       *)
(* instructions, reached from Graph.classes                                *)
(***************************************************************************)
\* the itype of the instructions after which block_term is set
Terminators == {"return", "goto", "if", "invoke", "method_end"}

\* the classes of Graph.classes
ProgramClasses(st) == {st.classes[i] : i \in 1..Len(st.classes)}

\* the methods of SmaliClass.methods of the Program's classes
ProgramMethods(st) ==
    {m \in DOMAIN st.M : \E c \in ProgramClasses(st) : InSeq(m, st.C[c].methods)}

\* the blocks of Method.basic_blocks of the Program's methods
ProgramBlocks(st) ==
    {b \in DOMAIN st.B : \E m \in ProgramMethods(st) : InSeq(b, st.M[m].basic_blocks)}

\* the positions of a block's instruction list that hold a terminator
TermAt(st, b) ==
    {i \in 1..Len(st.B[b].instructions) : st.B[b].instructions[i].itype \in Terminators}

\* the text of a block's first instruction
Leader(st, b) == st.B[b].instructions[1].instruction

\* the blocks whose last instruction has the given itype / whose leader has
\* the given text
BlocksEndingIn(st, itype) == {b \in DOMAIN st.B : Last(st.B[b].instructions).itype = itype}

BlocksLedBy(st, text) == {b \in DOMAIN st.B : Leader(st, b) = text}

\* the elements of a list
Elements(list) == {list[i] : i \in 1..Len(list)}

(***************************************************************************)
(* C1: parent/child lists are reciprocal and never dangle                  *)
(***************************************************************************)
\* every child id of block a is a block of the Program that lists a as a
\* parent, and every parent id of a is a block of the Program that lists a as
\* a child
Reciprocal(st, a) ==
    /\ \A c \in Elements(st.B[a].child_block_ids) :
          c \in ProgramBlocks(st) /\ InSeq(a, st.B[c].parent_block_ids)
    /\ \A p \in Elements(st.B[a].parent_block_ids) :
          p \in ProgramBlocks(st) /\ InSeq(a, st.B[p].child_block_ids)

\* C1: at the end of resolution every parent/child relation of every block of
\* the Program is reciprocal and no parent or child id is dangling, whatever
\* the input lines are (switch-table regions included)
C1_ReciprocalEdges ==
    pc = "done" => \A a \in ProgramBlocks(state) : Reciprocal(state, a)

(***************************************************************************)
(* C2: the terminators of a block                                          *)
(***************************************************************************)
\* C2 as the claim states it: in the final Program every block holds exactly
\* one terminator, and it is the block's last instruction
C2_ExactlyOneTerminator ==
    pc = "done" =>
        \A b \in ProgramBlocks(state) : TermAt(state, b) = {Len(state.B[b].instructions)}

\* block i of method m holds no terminator for one of the reasons the parser
\* has: a label closed it (the next block is led by a label), it holds a label
\* only (a label behind a terminator, closed by the next instruction), or it
\* is the method's last block (the file ended inside the method, or the block
\* is the one of a synthesized library method)
ClosedWithoutTerminator(st, m, i) ==
    LET bbs == st.M[m].basic_blocks
    IN  \/ i = Len(bbs)
        \/ i < Len(bbs) /\ bbs[i + 1] # None
                        /\ st.B[bbs[i + 1]].instructions[1].itype = "label"
        \/ Len(st.B[bbs[i]].instructions) = 1
              /\ st.B[bbs[i]].instructions[1].itype = "label"

\* C2, amended: in the final Program every block holds at most one terminator,
\* and a terminator is the block's last instruction; a block holds none only
\* when a label closed it, when it holds a label only, or when it is the last
\* block of its method
C2_AtMostOneTerminator ==
    pc = "done" =>
        \A m \in ProgramMethods(state) : \A i \in 1..Len(state.M[m].basic_blocks) :
            LET b == state.M[m].basic_blocks[i]
            IN  b # None =>
                  /\ TermAt(state, b) \subseteq {Len(state.B[b].instructions)}
                  /\ TermAt(state, b) = {} => ClosedWithoutTerminator(state, m, i)

\* a final Program with a block that a label closed: it holds no terminator
C2_Witness ==
    /\ pc = "done"
    /\ \E m \in ProgramMethods(state) : \E i \in 1..(Len(state.M[m].basic_blocks) - 1) :
          /\ state.M[m].basic_blocks[i] # None
          /\ state.M[m].basic_blocks[i + 1] # None
          /\ TermAt(state, state.M[m].basic_blocks[i]) = {}
          /\ Len(state.B[state.M[m].basic_blocks[i]].instructions) > 1
          /\ state.B[state.M[m].basic_blocks[i + 1]].instructions[1].itype = "label"

(***************************************************************************)
(* C3: ids are dense                                                       *)
(***************************************************************************)
\* the entities of each kind the Program holds, by their place in it
ClassEntities(st) == 1..Len(st.classes)

MethodEntities(st) ==
    UNION {{<<c, i>> : i \in {j \in 1..Len(st.C[c].methods) : st.C[c].methods[j] # None}}
           : c \in ProgramClasses(st)}

BlockEntities(st) ==
    UNION {{<<m, i>> : i \in {j \in 1..Len(st.M[m].basic_blocks) : st.M[m].basic_blocks[j] # None}}
           : m \in ProgramMethods(st)}

InstructionEntities(st) ==
    UNION {{<<b, i>> : i \in 1..Len(st.B[b].instructions)} : b \in ProgramBlocks(st)}

\* the ids they carry
ClassIds(st) == {st.C[st.classes[i]].class_id : i \in ClassEntities(st)}

MethodIds(st) == {st.M[st.C[e[1]].methods[e[2]]].method_id : e \in MethodEntities(st)}

BlockIds(st) == {st.B[st.M[e[1]].basic_blocks[e[2]]].block_id : e \in BlockEntities(st)}

InstructionIds(st) == {st.B[e[1]].instructions[e[2]].instr_id : e \in InstructionEntities(st)}

\* the ids of k entities are 0..k-1: pairwise distinct, none skipped
Dense(ids, entities) == ids = 0..(Cardinality(entities) - 1)

\* C3: after parsing and resolution the ids of the classes, of the methods, of
\* the blocks and of the instructions of the Program are pairwise distinct and
\* form the range 0..k-1, k the number of entities of the kind
C3_DenseIds ==
    pc = "done" =>
        /\ Dense(ClassIds(state), ClassEntities(state))
        /\ Dense(MethodIds(state), MethodEntities(state))
        /\ Dense(BlockIds(state), BlockEntities(state))
        /\ Dense(InstructionIds(state), InstructionEntities(state))

(***************************************************************************)
(* C4: a label call is resolved or reported                                *)
(***************************************************************************)
\* the blocks of a method: those of its list and, while it is the active
\* method, the active block
MethodBlocks(st, m) ==
    {b \in DOMAIN st.B : \/ InSeq(b, st.M[m].basic_blocks)
                         \/ st.active_method = m /\ st.active_block = b}

\* the caller of label call e has a child, a block of method m, that is led by
\* the label or by one of the label's aliases
LabelResolved(st, m, e) ==
    \E b \in MethodBlocks(st, m) :
        /\ \/ Leader(st, b) = e[1]
           \/ /\ HasKey(st.M[m].label_aliases, e[1])
              /\ InSeq(Leader(st, b), Lookup(st.M[m].label_aliases, e[1]))
        /\ InSeq(b, st.B[e[2]].child_block_ids)

\* C4: once resolve_labels has run at a method's .end method, every entry
\* (label, caller) of the method's label calls is resolved or is in the report
\* resolve_labels returned
C4_ResolvedOrReported ==
    \A m \in DOMAIN state.failures :
        \A e \in Elements(state.M[m].label_calls) :
            LabelResolved(state, m, e) \/ InSeq(e, state.failures[m])

(***************************************************************************)
(* C5: the return edge of a call to a non-void method                      *)
(***************************************************************************)
\* the methods of class c with the name, parameter types and return type of
\* the signature an invocation entry records
Target(st, c, sig) ==
    {m \in DOMAIN st.M :
        /\ InSeq(m, st.C[c].methods)
        /\ st.M[m].method_name = process_method_directive(sig).method_name
        /\ st.M[m].param_types = process_method_directive(sig).param_types
        /\ st.M[m].return_type = process_method_directive(sig).return_type}

\* the classes of the Program with the path/name an invocation entry records
Named(st, name) ==
    {c \in ProgramClasses(st) : st.C[c].class_path \o <<"/">> \o st.C[c].class_name = name}

\* the last block of method m has block src as a child, and src has it as a
\* parent
ReturnEdge(st, m, src) ==
    LET final == Last(st.M[m].basic_blocks)
    IN  /\ InSeq(src, st.B[final].child_block_ids)
        /\ InSeq(final, st.B[src].parent_block_ids)

\* C5: after the resolution phases, for every entry of a class's intra-class
\* and cross-class invocation lists whose target method returns a type other
\* than V, the target's last block has the call-site block as a child and the
\* call-site block has the target's last block as a parent
C5_ReturnEdges ==
    pc = "done" =>
        \A c \in ProgramClasses(state) :
            /\ \A e \in Elements(state.C[c].invocations_local) :
                  \A m \in Target(state, c, e[3]) :
                      state.M[m].return_type # <<"V">> => ReturnEdge(state, m, e[2])
            /\ \A e \in Elements(state.C[c].invocations_global) :
                  \A d \in Named(state, e[3]) : \A m \in Target(state, d, e[4]) :
                      state.M[m].return_type # <<"V">> => ReturnEdge(state, m, e[2])

(***************************************************************************)
(* C6: one synthesized class and method per library target                 *)
(***************************************************************************)
\* the places of Graph.classes holding a class with the given path/name, and
\* the places of a class's method list holding a method with the signature
ClassesNamed(st, name) ==
    {i \in 1..Len(st.classes) :
        st.C[st.classes[i]].class_path \o <<"/">> \o st.C[st.classes[i]].class_name = name}

MethodsSigned(st, c, sig) ==
    {j \in 1..Len(st.C[c].methods) : st.C[c].methods[j] \in Target(st, c, sig)}

\* C6: after resolve_library_invocations, for every (target class, method
\* name, parameter types, return type) of a library invocation entry the
\* Program holds exactly one class with that path/name and in it exactly one
\* method with that name, parameter types and return type
C6_OneClassOneMethod ==
    pc = "done" =>
        \A c \in ProgramClasses(state) : \A e \in Elements(state.C[c].invocations_lib) :
            /\ Cardinality(ClassesNamed(state, e[3])) = 1
            /\ \A k \in ClassesNamed(state, e[3]) :
                  Cardinality(MethodsSigned(state, state.classes[k], e[4])) = 1

\* a final Program whose library invocations name one target twice and two
\* methods of one class
C6_Witness ==
    /\ pc = "done"
    /\ \E c \in ProgramClasses(state) :
          LET lib == state.C[c].invocations_lib
          IN  /\ \E i, j \in 1..Len(lib) :
                    i # j /\ lib[i][3] = lib[j][3] /\ lib[i][4] = lib[j][4]
              /\ \E i, j \in 1..Len(lib) :
                    lib[i][3] = lib[j][3] /\ lib[i][4] # lib[j][4]

(***************************************************************************)
(* C7: a block that is not its method's first has a parent                 *)
(***************************************************************************)
\* C7: in the final Program every block that is not the first block of its
\* method has a non-empty parent list
C7_NonEntryHasParent ==
    pc = "done" =>
        \A m \in ProgramMethods(state) : \A i \in 2..Len(state.M[m].basic_blocks) :
            LET b == state.M[m].basic_blocks[i]
            IN  b # None /\ state.B[b].parent_block_ids # <<>>

\* a final Program with a method of three blocks and a synthesized method
C7_Witness ==
    /\ pc = "done"
    /\ \E m \in ProgramMethods(state) : Len(state.M[m].basic_blocks) >= 3
    /\ \E b \in ProgramBlocks(state) : state.B[b].instructions[1].itype = "DUMMY"

(***************************************************************************)
(* C8: nothing follows a terminator in its block                           *)
(***************************************************************************)
\* C8: in every reachable state no block, attached to a method or not, holds
\* a terminator at a position other than its last
C8_TerminatorIsLast ==
    \A b \in DOMAIN state.B : TermAt(state, b) \subseteq {Len(state.B[b].instructions)}

\* a block ending in a terminator has been closed and the parser has gone on
\* to fill a later block of the same method
C8_Witness ==
    /\ pc = "lines"
    /\ state.active_block # None
    /\ \E b \in DOMAIN state.B :
          /\ b # state.active_block
          /\ TermAt(state, b) # {}
          /\ InSeq(b, state.M[state.active_method].basic_blocks)
          /\ Len(state.B[state.active_block].instructions) >= 2

(***************************************************************************)
(* C9: the conditional branch                                              *)
(***************************************************************************)
\* a file whose method body is :L0; const; if-eqz v0, :L1; const; :L1;
\* return-void
C9Lines ==
    << ClassLine(PathA), MethodLine("f", <<>>, "V"), LabelLine("L0"), ConstLine,
       IfLine("L1"), ConstLine, LabelLine("L1"), ReturnLine, EndMethodLine >>

\* C9: once the method's .end method has resolved its labels, the block ending
\* in if-eqz has exactly two children, the block led by the const behind the
\* if and the block led by :L1, and the :L1 block has exactly two parents, the
\* if-eqz block and the const block
C9_ConditionalBranch ==
    lines_read = C9Lines =>
        \E a \in BlocksEndingIn(state, "if") :
        \E f \in BlocksLedBy(state, ConstLine) :
        \E l \in BlocksLedBy(state, LabelLine("L1")) :
            /\ BlocksEndingIn(state, "if") = {a}
            /\ BlocksLedBy(state, ConstLine) = {f}
            /\ BlocksLedBy(state, LabelLine("L1")) = {l}
            /\ Len(state.B[a].child_block_ids) = 2
            /\ Elements(state.B[a].child_block_ids) = {f, l}
            /\ Len(state.B[l].parent_block_ids) = 2
            /\ Elements(state.B[l].parent_block_ids) = {a, f}

\* the file has been parsed and the phases have run
C9_Witness == lines_read = C9Lines /\ pc = "done"

(***************************************************************************)
(* C10: the straight-line method                                           *)
(***************************************************************************)
\* a file with class A and method f()V: const v0, 0x1; return-void
C10Lines ==
    << ClassLine(PathA), MethodLine("f", <<>>, "V"), ConstLine, ReturnLine, EndMethodLine >>

\* C10 as the claim states it: the Program has 1 class and 1 method, the
\* method has exactly 1 block, led by the method-start instruction and holding
\* 3 instructions, and calls_out is empty
C10_OneBlock ==
    (lines_read = C10Lines /\ pc = "done") =>
        /\ Len(state.classes) = 1
        /\ Len(state.C[state.classes[1]].methods) = 1
        /\ LET m == state.C[state.classes[1]].methods[1]
           IN  /\ Len(state.M[m].basic_blocks) = 1
               /\ state.B[state.M[m].basic_blocks[1]].instructions[1].itype = "method_start"
               /\ Len(state.B[state.M[m].basic_blocks[1]].instructions) = 3
               /\ state.M[m].calls_out = <<>>

\* C10, amended: the Program has 1 class and 1 method; the method has exactly
\* 2 blocks: the first is led by the method-start instruction and holds 3
\* instructions (method start, const, return-void), the second holds the
\* .end method instruction alone and is the first's child; calls_out is empty
C10_TwoBlocks ==
    (lines_read = C10Lines /\ pc = "done") =>
        /\ Len(state.classes) = 1
        /\ Len(state.C[state.classes[1]].methods) = 1
        /\ LET m  == state.C[state.classes[1]].methods[1]
               b1 == state.B[state.M[m].basic_blocks[1]]
               b2 == state.B[state.M[m].basic_blocks[2]]
           IN  /\ Len(state.M[m].basic_blocks) = 2
               /\ [i \in 1..Len(b1.instructions) |-> b1.instructions[i].itype]
                      = <<"method_start", "other", "return">>
               /\ [i \in 1..Len(b2.instructions) |-> b2.instructions[i].itype]
                      = <<"method_end">>
               /\ b1.child_block_ids = <<b2.block_id>>
               /\ b2.parent_block_ids = <<b1.block_id>>
               /\ state.M[m].calls_out = <<>>

\* the file has been parsed and the phases have run
C10_Witness == lines_read = C10Lines /\ pc = "done"

(***************************************************************************)
(* C11: a method with a packed-switch and its data                         *)
(***************************************************************************)
\* the class file of the claim: packed-switch v0, :pdata, and the data of
\* :pdata with the targets :c0 and :c1, then .end method
C11Lines ==
    << ClassLine(PathA), MethodLine("f", <<>>, "V"), SwitchOpLine("pdata"),
       LabelLine("pdata"), PSwitchStartLine, LabelLine("c0"), LabelLine("c1"),
       PSwitchEndLine, EndMethodLine >>

\* C11: once the lines of C11Lines are read, parsing has completed (no
\* exception was raised), the alias table of the method maps :pdata to
\* [:c0, :c1], and the block of every label call that targets :pdata has the
\* block led by :c0 and the block led by :c1 as children
C11_PackedSwitch ==
    lines_read = C11Lines =>
        LET m == state.active_method
        IN  /\ pc # "crashed"
            /\ HasKey(state.M[m].label_aliases, LabelLine("pdata"))
            /\ Lookup(state.M[m].label_aliases, LabelLine("pdata"))
                   = <<LabelLine("c0"), LabelLine("c1")>>
            /\ \A i \in 1..Len(state.M[m].label_calls) :
                   state.M[m].label_calls[i][1] = LabelLine("pdata") =>
                       \A c \in {LabelLine("c0"), LabelLine("c1")} :
                           \E b \in BlocksLedBy(state, c) :
                               InSeq(b, state.B[state.M[m].label_calls[i][2]].child_block_ids)

(***************************************************************************)
(* C12: a method that calls another method of its class by invoke-direct   *)
(***************************************************************************)
\* class c's only intra-class invocation is made in block b of method m1 and
\* names method m2 of the class; m1 and m2 differ and both return I
C12Case(st, c, m1, b, m2) ==
    /\ Len(st.C[c].invocations_local) = 1
    /\ st.C[c].invocations_local[1][1] = m1
    /\ st.C[c].invocations_local[1][2] = b
    /\ m2 \in Target(st, c, st.C[c].invocations_local[1][3])
    /\ InSeq(m1, st.C[c].methods)
    /\ InSeq(b, st.M[m1].basic_blocks)
    /\ \E i \in 1..Len(st.B[b].instructions) :
          Contains(st.B[b].instructions[i].instruction, <<"invoke", "-direct">>)
    /\ m1 # m2
    /\ st.M[m1].return_type = <<"I">>
    /\ st.M[m2].return_type = <<"I">>

\* C12: in a Program class whose method m1()I calls m2()I of the class by
\* invoke-direct (the class's only intra-class call), the call-site block has
\* m2's first block as a child and is a parent of it, m2's last block has the
\* call-site block as a child and is a parent of it, m1.calls_out holds m2,
\* m2.calls_in holds m1 and m2.calls_out holds m1
C12_LocalCall ==
    \A c \in ProgramClasses(state) : \A m1, m2 \in DOMAIN state.M : \A b \in DOMAIN state.B :
        C12Case(state, c, m1, b, m2) =>
            LET entry == state.M[m2].basic_blocks[1]
                final == Last(state.M[m2].basic_blocks)
            IN  /\ InSeq(entry, state.B[b].child_block_ids)
                /\ InSeq(b, state.B[entry].parent_block_ids)
                /\ InSeq(b, state.B[final].child_block_ids)
                /\ InSeq(final, state.B[b].parent_block_ids)
                /\ InSeq(m2, state.M[m1].calls_out)
                /\ InSeq(m1, state.M[m2].calls_in)
                /\ InSeq(m1, state.M[m2].calls_out)

\* a final Program with such a class, whose m2 has more blocks than one
C12_Witness ==
    /\ pc = "done"
    /\ \E c \in ProgramClasses(state) : \E m1, m2 \in DOMAIN state.M : \E b \in DOMAIN state.B :
          /\ C12Case(state, c, m1, b, m2)
          /\ Len(state.M[m2].basic_blocks) > 1

(***************************************************************************)
(* C13: a cross-class call queues the target's file, which is then parsed  *)
(***************************************************************************)
\* the text of a queue entry
EntryText(item) == IF HasFileName(item) THEN item.file_name ELSE item.str

\* C13: where the manifest lists smali/com/app/A.smali only and the parsed
\* class A holds an invoke of Lcom/app/B;->h()V, the queue holds
\* smali/com/app/B.smali, the driver loop goes on to parse B (it raises no
\* exception), and once resolve_global_invocations has run the call-site
\* block of A has the first block of B's method h as a child and is a parent
\* of it
C13_CrossDiscovery ==
    Manifest(family) = <<SmaliFile(PathA)>> =>
        \A a \in ProgramClasses(state) : \A e \in Elements(state.C[a].invocations_global) :
            (e[3] = <<"L">> \o PathB /\ e[4] = <<"h", "(", ")", "V">>) =>
                /\ \E i \in 1..Len(state.file_list) :
                      EntryText(state.file_list[i]) = SmaliFile(PathB)
                /\ pc # "crashed"
                /\ pc \in {"library", "done"} =>
                      \E b \in Named(state, <<"L">> \o PathB) :
                          \E h \in Target(state, b, MethodLine("h", <<>>, "V")) :
                              /\ InSeq(state.M[h].basic_blocks[1], state.B[e[2]].child_block_ids)
                              /\ InSeq(e[2], state.B[state.M[h].basic_blocks[1]].parent_block_ids)

(***************************************************************************)
(* C14: the class synthesized for StringBuilder.append(String)             *)
(***************************************************************************)
\* e is a library invocation of
\* Ljava/lang/StringBuilder;->append(Ljava/lang/String;)Ljava/lang/StringBuilder;
C14Call(e) ==
    /\ e[3] = <<"L">> \o PathStringBuilder
    /\ e[4] = <<"append", "(">> \o Descriptor(PathString) \o <<")">>
                  \o Descriptor(PathStringBuilder)

\* class k of the Program has the short name StringBuilder and the given
\* path, and holds one method only: append, with the parameter list
\* [Ljava/lang/String, (empty)] and the return type Ljava/lang/StringBuilder;,
\* whose dummy block is a child of block src and has src as a child
C14Class(st, k, path, src) ==
    /\ st.C[k].class_name = <<"StringBuilder">>
    /\ st.C[k].class_path = path
    /\ Len(st.C[k].methods) = 1
    /\ LET m == st.C[k].methods[1]
       IN  /\ st.M[m].method_name = <<"append">>
           /\ st.M[m].param_types = << <<"L">> \o PathString, <<>> >>
           /\ st.M[m].return_type = Descriptor(PathStringBuilder)
           /\ Len(st.M[m].basic_blocks) = 1
           /\ st.B[st.M[m].basic_blocks[1]].instructions[1].itype = "DUMMY"
           /\ InSeq(st.M[m].basic_blocks[1], st.B[src].child_block_ids)
           /\ InSeq(src, st.B[st.M[m].basic_blocks[1]].child_block_ids)

\* C14 as stated: after resolve_library_invocations, for an invoke of
\* StringBuilder.append the Program holds a synthesized class StringBuilder
\* with path java/lang, with the one method append and the edges between the
\* call-site block and the dummy block
C14_LibraryClass ==
    pc = "done" =>
        \A c \in ProgramClasses(state) : \A e \in Elements(state.C[c].invocations_lib) :
            C14Call(e) =>
                \E k \in ProgramClasses(state) :
                    C14Class(state, k, <<"java", "/", "lang">>, e[2])

\* C14 amended: the same, with the path Ljava/lang (the descriptor's leading L
\* is kept)
C14_LibraryClassPath ==
    pc = "done" =>
        \A c \in ProgramClasses(state) : \A e \in Elements(state.C[c].invocations_lib) :
            C14Call(e) =>
                \E k \in ProgramClasses(state) :
                    C14Class(state, k, <<"L", "java", "/", "lang">>, e[2])

\* a final Program whose class A invokes StringBuilder.append, and another
\* library method as well
C14_Witness ==
    /\ pc = "done"
    /\ \E c \in ProgramClasses(state) :
          /\ \E e \in Elements(state.C[c].invocations_lib) : C14Call(e)
          /\ \E e \in Elements(state.C[c].invocations_lib) : ~C14Call(e)

(***************************************************************************)
(* C15: how add_invocation classifies an invoke                            *)
(***************************************************************************)
\* the list C15 puts an invoke of class c into: "local", "global", "library",
\* or "none"
C15Kind(st, c, instr) ==
    LET target == Remove(Strip(invoke_class_regex(instr)), <<";", "->">>)
        source == st.C[c].class_path \o <<"/">> \o st.C[c].class_name
        app_top_level == Split(st.C[c].class_path, "/")[2]
    IN  IF target = source
        THEN IF Contains(instr, <<"invoke", "-direct">>) THEN "local" ELSE "none"
        ELSE IF StartsWith(target, <<"L", "com">>) /\ Contains(target, app_top_level)
        THEN "global"
        ELSE "library"

\* the step reads an invoke line inside a method, and raises nothing
C15Step ==
    /\ pc = "lines" /\ pc' = "lines"
    /\ Len(lines_read') = Len(lines_read) + 1
    /\ state.METHOD_FLAG
    /\ Match("invoke", Clean(Last(lines_read')))

\* the step adds n entries to the list and, if one, an entry of the target
C15Adds(before, after, n, instr) ==
    /\ Len(after) = Len(before) + n
    /\ SubSeq(after, 1, Len(before)) = before
    /\ n = 1 => Last(after)[Len(Last(after))] = Strip(Last(Split(instr, "->")))

\* C15: an invoke line read inside a method adds one entry to the list of its
\* kind and none to the other two lists of the class: intra-class iff the
\* target is the source class and the line is invoke-direct, cross-class iff
\* the target is another class, starts with Lcom and contains app_top_level,
\* library otherwise; an invoke of the source class that is not invoke-direct
\* adds no entry to any list and no file to the queue
C15_Classification ==
    [][ C15Step =>
          LET c     == state.active_class
              instr == Clean(Last(lines_read'))
              kind  == C15Kind(state, c, instr)
          IN  /\ C15Adds(state.C[c].invocations_local, state'.C[c].invocations_local,
                         IF kind = "local" THEN 1 ELSE 0, instr)
              /\ C15Adds(state.C[c].invocations_global, state'.C[c].invocations_global,
                         IF kind = "global" THEN 1 ELSE 0, instr)
              /\ C15Adds(state.C[c].invocations_lib, state'.C[c].invocations_lib,
                         IF kind = "library" THEN 1 ELSE 0, instr)
              /\ kind = "none" => state'.file_list = state.file_list ]_vars

(***************************************************************************)
(* C16: the method-level edges of a resolved cross-class call              *)
(***************************************************************************)
\* the cross-class entry e was connected to method t of the class it names:
\* its call-site block has t's first block as a child
C16Resolved(st, e, t) ==
    /\ \E k \in Named(st, e[3]) : t \in Target(st, k, e[4])
    /\ InSeq(st.M[t].basic_blocks[1], st.B[e[2]].child_block_ids)

\* C16: once resolve_global_invocations has run, for every cross-class
\* invocation it has connected, from method S to method T, S.calls_out holds
\* T's id and T.calls_in holds S's id, whatever T returns
C16_CallEdges ==
    pc \in {"library", "done"} =>
        \A c \in ProgramClasses(state) : \A e \in Elements(state.C[c].invocations_global) :
            \A t \in DOMAIN state.M :
                C16Resolved(state, e, t) =>
                    /\ InSeq(t, state.M[e[1]].calls_out)
                    /\ InSeq(e[1], state.M[t].calls_in)

(***************************************************************************)
(* C17: the method-level edges of a connected library call                 *)
(***************************************************************************)
\* the library entry e was connected to the synthesized method t of the class
\* it names: its call-site block has t's dummy block as a child and is a
\* parent of it
C17Connected(st, e, t) ==
    /\ \E k \in Named(st, e[3]) : t \in Target(st, k, e[4])
    /\ st.B[st.M[t].basic_blocks[1]].instructions[1].itype = "DUMMY"
    /\ InSeq(st.M[t].basic_blocks[1], st.B[e[2]].child_block_ids)
    /\ InSeq(e[2], st.B[st.M[t].basic_blocks[1]].parent_block_ids)

\* C17: once resolve_library_invocations has run, for every library
\* invocation it has connected, from method S to the synthesized method T,
\* S.calls_out holds T's id and T.calls_in holds S's id
C17_LibraryCallEdges ==
    pc = "done" =>
        \A c \in ProgramClasses(state) : \A e \in Elements(state.C[c].invocations_lib) :
            \A t \in DOMAIN state.M :
                C17Connected(state, e, t) =>
                    /\ InSeq(t, state.M[e[1]].calls_out)
                    /\ InSeq(e[1], state.M[t].calls_in)

(***************************************************************************)
(* C18, C19: a failed lookup skips one invocation only                     *)
(***************************************************************************)
\* whether a list of methods holds one of the name / of the id
HasMethodNamed(st, methods, name) ==
    \E m \in Elements(methods) : m # None /\ st.M[m].method_name = name

HasMethodWithId(st, methods, method_id) ==
    \E m \in Elements(methods) : m # None /\ st.M[m].method_id = method_id

\* the intra-class entry e of class c fails a lookup: its target method, its
\* source method or its source block is not found
C18Fails(st, c, e) ==
    \/ ~HasMethodNamed(st, st.C[c].methods, Split(e[3], "(")[1])
    \/ ~HasMethodWithId(st, st.C[c].methods, e[1])
    \/ ~InSeq(e[2], st.M[e[1]].basic_blocks)

\* the Graph with the failing entries of class c's intra-class list removed
C18WithoutFailing(st, c) ==
    LET Resolvable(e) == ~C18Fails(st, c, e)
    IN  [st EXCEPT !.C[c].invocations_local = SelectSeq(@, Resolvable)]

\* the Graph at the end of a file, before resolve_local_invocations is called
C18Attached(st) ==
    add_method(IF st.active_block # None
               THEN add_basic_block(st, st.active_method, st.active_block)
               ELSE st,
               st.active_class, st.active_method)

\* C18: when the end of a file resolves the class's intra-class invocations,
\* the methods and blocks come out as they do with the failing entries
\* absent from the list: every other entry is resolved, and no edge is added
\* for a failing one
C18_LocalSkipsOne ==
    [][ (pc = "lines" /\ pc' = "open") =>
          LET c       == state.active_class
              without == resolve_local_invocations(C18WithoutFailing(C18Attached(state), c), c)
          IN  /\ state'.M = without.M
              /\ state'.B = without.B ]_vars

\* the cross-class entry e of class c fails a lookup: its source method, its
\* target class, its source block or its target method is not found
C19Fails(st, c, e) ==
    \/ ~HasMethodWithId(st, st.C[c].methods, e[1])
    \/ ~InSeq(e[2], st.M[e[1]].basic_blocks)
    \/ \A k \in ProgramClasses(st) :
          st.C[k].class_name = Remove(Last(Split(e[3], "/")), <<";">>) =>
              ~HasMethodNamed(st, st.C[k].methods, Split(e[4], "(")[1])

\* the Graph with the failing entries of every cross-class list removed
C19WithoutFailing(st) ==
    [st EXCEPT !.C = [c \in DOMAIN st.C |->
                         LET Resolvable(e) == ~C19Fails(st, c, e)
                         IN  [st.C[c] EXCEPT !.invocations_global = SelectSeq(@, Resolvable)]]]

\* the failing entries of the Program's cross-class lists
C19Failing(st) ==
    UNION { { <<c, i>> : i \in {j \in 1..Len(st.C[c].invocations_global) :
                                    C19Fails(st, c, st.C[c].invocations_global[j])} } :
            c \in ProgramClasses(st) }

\* C19: when resolve_global_invocations runs, it reports every failing entry,
\* and the methods and blocks come out as they do with the failing entries
\* absent from the lists: every other cross-class invocation is resolved
C19_GlobalSkipsOne ==
    [][ (pc = "open" /\ pc' = "library") =>
          /\ Len(response'.global) = Cardinality(C19Failing(state))
          /\ state'.M = resolve_global_invocations(C19WithoutFailing(state)).M
          /\ state'.B = resolve_global_invocations(C19WithoutFailing(state)).B ]_vars

(***************************************************************************)
(* C20: a queued class file that cannot be opened                          *)
(***************************************************************************)
\* the queue entries marked as library references (their file did not open)
C20Missing(st) ==
    {i \in 1..Len(st.file_list) :
        HasFileName(st.file_list[i]) /\ st.file_list[i].make_library}

\* C20: a file of the queue that cannot be opened does not end the run, and
\* in the final Program there is a class for it, the class its path names
C20_MissingFileClass ==
    /\ C20Missing(state) # {} => pc # "crashed"
    /\ pc = "done" =>
          \A i \in C20Missing(state) :
              Named(state, <<"L">> \o PathOf(state.file_list[i].file_name)) # {}

(***************************************************************************)
(* C21: the file queue holds no path twice                                 *)
(***************************************************************************)
\* the positions of the queue the driver has opened and read to the end
C21Parsed ==
    {i \in 1..Len(state.file_list) :
        /\ HasFileName(state.file_list[i])
        /\ ~state.file_list[i].make_library
        /\ (i < file_idx \/ (i = file_idx /\ pc \in {"open", "library", "done"}))}

\* C21: no two entries of the file queue, entries of the manifest and
\* appended entries alike, denote the same path, and no file is read twice
C21_NoPathTwice ==
    /\ \A i, j \in 1..Len(state.file_list) :
           EntryText(state.file_list[i]) = EntryText(state.file_list[j]) => i = j
    /\ \A i, j \in C21Parsed :
           state.file_list[i].file_name = state.file_list[j].file_name => i = j

\* the part of C21 the code keeps: a cross-class invocation appends a path no
\* entry of the queue denotes, so every appended entry differs from every
\* entry before it
C21_AppendsUnseen ==
    \A j \in 1..Len(state.file_list) :
        ~HasFileName(state.file_list[j]) =>
            \A i \in 1..(j - 1) :
                EntryText(state.file_list[i]) # EntryText(state.file_list[j])

\* a class invoked a second cross-class target whose file is already queued
C21_Witness ==
    /\ \E c \in DOMAIN state.C :
           \E a, b \in 1..Len(state.C[c].invocations_global) :
               a < b /\ state.C[c].invocations_global[a][3]
                           = state.C[c].invocations_global[b][3]
    /\ \E j \in 1..Len(state.file_list) : ~HasFileName(state.file_list[j])

(***************************************************************************)
(* C28: an instruction read while block_term is set                        *)
(***************************************************************************)
\* the step reads, inside a method and outside annotation, field and switch
\* text, a line that is no label, no .line and no start of a region or of a
\* method, while the given flag value is block_term and a block is active,
\* and raises nothing
C28Step(block_term) ==
    /\ pc = "lines" /\ pc' = "lines"
    /\ Len(lines_read') = Len(lines_read) + 1
    /\ state.METHOD_FLAG
    /\ ~state.ANNOTATION_FLAG /\ ~state.FIELD_FLAG /\ ~state.SWITCH_FLAG
    /\ state.block_term = block_term
    /\ state.active_block # None
    /\ LET instr == Clean(Last(lines_read'))
       IN  /\ Dispatch(instr) \notin {"annotation_start", "field_start", "pswitch_start",
                                      "sswitch_start", "method_start"}
           /\ ~Match("label", instr) /\ ~Match("line", instr)

\* whether a line is one of the instructions that set block_term
C28Terminates(instr) ==
    \E kind \in Terminators : Match(kind, instr)

\* C28: an instruction read in a method while block_term is set closes the
\* active block: the block joins the method's blocks, a block with the next
\* block id is created with the instruction as its only instruction, the
\* closed block gets the new id as its next child and the new block the closed
\* block's id as its first parent, and block_term is cleared before the
\* instruction's own effect, so that it is set afterwards only by a terminator
C28_ClosesBlock ==
    [][ C28Step(TRUE) =>
          LET instr  == Clean(Last(lines_read'))
              m      == state.active_method
              closed == state.active_block
              new    == state.block_id
              kids   == state.B[closed].child_block_ids
          IN  /\ state'.M[m].basic_blocks = Append(state.M[m].basic_blocks, closed)
              /\ new \notin DOMAIN state.B
              /\ state'.active_block = new
              /\ state'.block_id = new + 1
              /\ state'.B[new].block_id = new
              /\ Len(state'.B[new].instructions) = 1
              /\ Leader(state', new) = instr
              /\ Len(state'.B[closed].child_block_ids) > Len(kids)
              /\ SubSeq(state'.B[closed].child_block_ids, 1, Len(kids) + 1)
                     = Append(kids, new)
              /\ state'.B[new].parent_block_ids # <<>>
              /\ Head(state'.B[new].parent_block_ids) = state.B[closed].block_id
              /\ state'.block_term = C28Terminates(instr) ]_vars

\* an instruction that sets no flag leads the active block, which has the
\* method's last block as its parent, and block_term is clear
C28_Witness ==
    /\ pc = "lines"
    /\ state.active_block # None /\ state.active_method # None
    /\ ~state.block_term
    /\ LET b == state.B[state.active_block]
           bbs == state.M[state.active_method].basic_blocks
       IN  /\ Len(b.instructions) = 1
           /\ b.instructions[1].itype = "other"
           /\ bbs # <<>>
           /\ b.parent_block_ids = <<Last(bbs)>>
           /\ Last(state.B[Last(bbs)].child_block_ids) = b.block_id
           /\ Last(state.B[Last(bbs)].instructions).itype \in Terminators

(***************************************************************************)
(* C29: a label read inside a method                                       *)
(***************************************************************************)
\* the step reads a label inside a method and outside annotation, field and
\* switch text, while a block is active, and raises nothing
C29LabelStep ==
    /\ pc = "lines" /\ pc' = "lines"
    /\ Len(lines_read') = Len(lines_read) + 1
    /\ state.METHOD_FLAG
    /\ ~state.ANNOTATION_FLAG /\ ~state.FIELD_FLAG /\ ~state.SWITCH_FLAG
    /\ state.active_block # None
    /\ Match("label", Clean(Last(lines_read')))

\* the step reads an instruction that is no label and no terminator while the
\* active block holds a label and nothing else
C29NextStep ==
    /\ \E block_term \in BOOLEAN : C28Step(block_term)
    /\ ~C28Terminates(Clean(Last(lines_read')))
    /\ Len(state.B[state.active_block].instructions) = 1
    /\ state.B[state.active_block].instructions[1].itype = "label"

\* C29: a label read in a method closes the active block as an instruction
\* behind a terminator does (the block joins the method, the new block is led
\* by the label, child and parent ids are recorded) and clears block_term; the
\* next instruction that is no label and no terminator joins the label's
\* block, also behind return, goto, if and invoke
C29_LabelClosesBlock ==
    [][ /\ C29LabelStep =>
              LET m      == state.active_method
                  closed == state.active_block
                  new    == state.block_id
              IN  /\ state'.M[m].basic_blocks = Append(state.M[m].basic_blocks, closed)
                  /\ state'.active_block = new
                  /\ state'.block_id = new + 1
                  /\ state'.B[new].instructions # <<>>
                  /\ Leader(state', new) = Clean(Last(lines_read'))
                  /\ state'.B[closed].child_block_ids
                         = Append(state.B[closed].child_block_ids, new)
                  /\ state'.B[new].parent_block_ids = <<state.B[closed].block_id>>
                  /\ ~state'.block_term
        /\ C29NextStep =>
              /\ state'.active_block = state.active_block
              /\ Len(state'.B[state.active_block].instructions) = 2
              /\ Last(state'.B[state.active_block].instructions).instruction
                     = Clean(Last(lines_read')) ]_vars

(***************************************************************************)
(* C30: lines read while a region flag is set                              *)
(***************************************************************************)
\* the step reads a line that process_instruction gets with ANNOTATION_FLAG,
\* FIELD_FLAG or SWITCH_FLAG set
C30Step ==
    /\ pc = "lines"
    /\ Len(lines_read') = Len(lines_read) + 1
    /\ LET instr == Clean(Last(lines_read'))
           pre   == FlagsBefore(Dispatch(instr), state)
       IN  pre.ANNOTATION_FLAG \/ pre.FIELD_FLAG \/ pre.SWITCH_FLAG

\* the Program without what a region may write: the four flags, the active
\* block, the annotation and field text of the classes, the annotation text,
\* the alias table and the previous label of the methods
C30Frame(st) ==
    [st EXCEPT !.ANNOTATION_FLAG = FALSE,
               !.FIELD_FLAG = FALSE,
               !.SWITCH_FLAG = FALSE,
               !.METHOD_FLAG = FALSE,
               !.active_block = None,
               !.C = [c \in DOMAIN st.C |->
                         [st.C[c] EXCEPT !.annotations = <<>>, !.fields = <<>>]],
               !.M = [m \in DOMAIN st.M |->
                         [st.M[m] EXCEPT !.annotation = <<>>,
                                         !.label_aliases = <<>>,
                                         !.previous_label = <<>>]]]

\* C30: a line processed while ANNOTATION_FLAG, FIELD_FLAG or SWITCH_FLAG is
\* set, METHOD_FLAG set or not, creates no instruction and no block, appends
\* to no block, advances no id counter and leaves block_term as it is: the
\* Program changes in annotation and field text and in the alias table only,
\* and the active block changes only where the data of a switch starts
C30_RegionFrame ==
    [][ C30Step =>
          /\ C30Frame(state') = C30Frame(state)
          /\ state'.B = state.B
          /\ state'.block_term = state.block_term
          /\ <<state'.class_id, state'.method_id, state'.block_id, state'.instruction_id>>
                 = <<state.class_id, state.method_id, state.block_id, state.instruction_id>>
          /\ state'.active_block # state.active_block =>
                 /\ Dispatch(Clean(Last(lines_read'))) \in {"pswitch_start", "sswitch_start"}
                 /\ ~state.ANNOTATION_FLAG /\ state'.active_block = None ]_vars

\* annotation text was read inside a method: it is the method's annotation,
\* and the method's entry block holds the method's first instruction only
C30_Witness ==
    /\ pc = "lines"
    /\ state.METHOD_FLAG /\ state.ANNOTATION_FLAG
    /\ state.active_method # None /\ state.active_block # None
    /\ Len(state.M[state.active_method].annotation) >= 2
    /\ Len(state.B[state.active_block].instructions) = 1

(***************************************************************************)
(* C22: the Program is a function of the queue and of the files' contents  *)
(***************************************************************************)
\* a second run over the lines of one file, from line n on: the Graph after
\* the last line, or the Graph before the line that raises
RECURSIVE C22Lines(_, _, _)
C22Lines(st, lines, n) ==
    IF n > Len(lines) THEN [st |-> st, raised |-> FALSE]
    ELSE LET instr  == Clean(lines[n])
             branch == Dispatch(instr)
             pre    == FlagsBefore(branch, st)
         IN  IF process_instruction_raises(instr, n, pre)
             THEN [st |-> st, raised |-> TRUE]
             ELSE C22Lines(FlagsAfter(branch, process_instruction(instr, n, pre)),
                           lines, n + 1)

\* the Graph as the for loop has it when it opens a file
C22Opened(st) ==
    [st EXCEPT !.ANNOTATION_FLAG = FALSE, !.FIELD_FLAG = FALSE,
               !.SWITCH_FLAG = FALSE, !.METHOD_FLAG = FALSE,
               !.active_class = None, !.active_method = None, !.active_block = None]

\* the two resolution phases behind the queue, up to the given position
C22Resolve(st, upto_pc) ==
    LET none == [global |-> <<>>, library |-> <<>>]
    IN  IF resolve_global_invocations_raises(st)
        THEN [pc |-> "crashed", st |-> st, response |-> none]
        ELSE LET global == resolve_global_invocations(st)
                 first  == [none EXCEPT !.global = resolve_global_report(st)]
             IN  IF upto_pc = "library"
                 THEN [pc |-> "library", st |-> global, response |-> first]
                 ELSE IF resolve_library_invocations_raises(global)
                 THEN [pc |-> "crashed", st |-> global, response |-> first]
                 ELSE [pc |-> "done", st |-> resolve_library_invocations(global),
                       response |-> [first EXCEPT !.library = resolve_library_report(global)]]

\* a second run of the driver from queue entry i on, over the recorded files,
\* as far as the first run has come (upto_idx, upto_pc)
RECURSIVE C22Run(_, _, _, _, _)
C22Run(st, i, files, upto_idx, upto_pc) ==
    LET none == [global |-> <<>>, library |-> <<>>]
    IN  IF i > upto_idx
        THEN IF upto_pc \in {"open", "lines"} \/ i <= Len(st.file_list)
             THEN [pc |-> "open", st |-> st, response |-> none]
             ELSE C22Resolve(st, upto_pc)
        ELSE IF ~HasFileName(st.file_list[i])
        THEN [pc |-> "crashed", st |-> st, response |-> none]
        ELSE IF ~files[i].opened
        THEN C22Run([st EXCEPT !.file_list[i].make_library = TRUE],
                    i + 1, files, upto_idx, upto_pc)
        ELSE LET read == C22Lines(C22Opened(st), files[i].lines, 1)
             IN  IF read.raised
                 THEN [pc |-> "crashed", st |-> read.st, response |-> none]
                 ELSE IF i = upto_idx /\ upto_pc = "lines"
                 THEN [pc |-> "lines", st |-> read.st, response |-> none]
                 ELSE IF end_of_file_raises(read.st)
                 THEN [pc |-> "crashed", st |-> read.st, response |-> none]
                 ELSE C22Run(end_of_file(read.st), i + 1, files, upto_idx, upto_pc)

\* the second run over the input of this run: the same initial queue, the
\* same files present, the same lines in them
C22Again ==
    C22Run(Graph([i \in 1..Len(Manifest(family)) |-> FileItem(Manifest(family)[i])]),
           1, files_read, file_idx, IF pc = "crashed" THEN "done" ELSE pc)

C27Opcodes ==
    [ numeric_const |-> {"const"},
      call          |-> {"invoke"},
      compare       |-> {"if", "p_switch"},
      move          |-> {"move"},
      terminate     |-> {"return"} ]

\* the histogram of a block over these categories, by the opcode of each
\* instruction's text; the other slots as the emitter fills them
C27Histogram(st, b) ==
    LET instructions == st.B[b].instructions
        emitted == create_summary_feature_vector(
                       instructions,
                       Len(st.B[b].child_block_ids) + Len(st.B[b].parent_block_ids),
                       st.instruction_id - 1)
        slot(k) == CHOOSE name \in DOMAIN vector_map : vector_map[name] = k
    IN  [k \in 1..Len(emitted) |->
            IF slot(k - 1) \in DOMAIN C27Opcodes
            THEN Cardinality({i \in 1..Len(instructions) :
                     \E kind \in C27Opcodes[slot(k - 1)] :
                         Match(kind, instructions[i].instruction)})
            ELSE emitted[k]]

\* C27: the feature vector written for a block counts, in the slot of each
\* category, the block's instructions whose opcode is of the category: k const
\* instructions give k in the slot of the numeric constants
C27_Histogram ==
    pc = "written" /\ output.format = "coo" /\ output.type = "cfg" =>
        output.text[3] =
            StrOfVectors([i \in 1..Len(walk_blocks(state)) |->
                             C27Histogram(state, walk_blocks(state)[i])])

(***************************************************************************)
(* C26: the indices of the CFG COO file                                    *)
(***************************************************************************)
\* the numbers a line of the file lists, as texts
C26Numbers(coo_line) ==
    LET vertices == coo_vertices(coo_line)
    IN  {vertices[i] : i \in 1..Len(vertices)} \ {<<>>}

\* the texts of 0..n-1
C26Dense(n) == {<<ToString(k)>> : k \in 0..(n - 1)}

\* C26: in the CFG COO file whose first line gives N nodes, every number of
\* the lines of feature_row, adjacency_row and adjacency_col is in 0..N-1
C26_DenseIndices ==
    pc = "written" /\ output.format = "coo" /\ output.type = "cfg" =>
        LET N == Len(walk_blocks(state))
        IN  /\ output.text[1][1] = ToString(N)
            /\ C26Numbers(output.text[4]) \subseteq C26Dense(N)
            /\ C26Numbers(output.text[7]) \subseteq C26Dense(N)
            /\ C26Numbers(output.text[8]) \subseteq C26Dense(N)

(***************************************************************************)
(* C23: the edges read back from the CFG COO file                          *)
(***************************************************************************)
\* how often each element occurs in a list
C23Bag(list) ==
    [x \in {list[i] : i \in 1..Len(list)} |->
        Cardinality({i \in 1..Len(list) : list[i] = x})]

\* the (block id, child id) pairs of the child lists of the Program's blocks,
\* as texts
C23ChildPairs(st) ==
    LET blocks == walk_blocks(st)
    IN  Concat([i \in 1..Len(blocks) |->
                   [k \in 1..Len(st.B[blocks[i]].child_block_ids) |->
                       << <<ToString(st.B[blocks[i]].block_id)>>,
                          <<ToString(st.B[blocks[i]].child_block_ids[k])>> >>]])

\* C23: the (source, target) pairs coo_to_dot reads from the CFG COO file,
\* sources from the line of adjacency_col and targets from the line of
\* adjacency_row, are, with their multiplicities, the (block id, child id)
\* pairs of the child lists of the Program's blocks
C23_EdgesRoundTrip ==
    pc = "written" /\ output.format = "coo" /\ output.type = "cfg" =>
        C23Bag(coo_edges(output.text)) = C23Bag(C23ChildPairs(state))

\* the same for the Programs that have an edge
C23_EdgesRoundTripNonEmpty ==
    pc = "written" /\ output.format = "coo" /\ output.type = "cfg"
        /\ C23ChildPairs(state) # <<>> =>
        C23Bag(coo_edges(output.text)) = C23Bag(C23ChildPairs(state))

(***************************************************************************)
(* C25: the indices of the hybrid COO file                                 *)
(***************************************************************************)
\* C25: in the hybrid COO file whose first line gives N nodes, as many as
\* there are feature vectors, the numbers of the line of feature_row are
\* 0..N-1, each once, and every number of the lines of adjacency_row and
\* adjacency_col is in 0..N-1, the id of a node that has a feature vector
C25_HybridDenseIndices ==
    pc = "written" /\ output.format = "coo" /\ output.type = "hybrid" =>
        LET N == Len(coo_vertices(output.text[4]))
        IN  /\ output.text[1][1] = ToString(N)
            /\ C26Numbers(output.text[4]) = C26Dense(N)
            /\ C26Numbers(output.text[7]) \subseteq C26Dense(N)
            /\ C26Numbers(output.text[8]) \subseteq C26Dense(N)

(***************************************************************************)
(* C24: which methods the hybrid view expands                              *)
(***************************************************************************)
\* the methods the invocations recorded for method m name: a method of m's
\* own class with the signature of an intra-class entry, a method with the
\* signature of a cross-class or library entry in a class of the Program of
\* the path/name the entry gives
C24Callees(st, m) ==
    {t \in DOMAIN st.M : \E c \in ProgramClasses(st) :
        \/ \E e \in Elements(st.C[c].invocations_local) :
              e[1] = m /\ t \in Target(st, c, e[3])
        \/ \E e \in Elements(st.C[c].invocations_global) \cup Elements(st.C[c].invocations_lib) :
              e[1] = m /\ \E k \in Named(st, e[3]) : t \in Target(st, k, e[4])}

\* method m holds a call of a method the expansion file names
C24CallsTarget(st, m, exp_file) ==
    \E t \in C24Callees(st, m) :
        st.M[t].method_id \in exp_method_ids(st, extract_target_methods(exp_file))

\* the ids of the block nodes and of the method nodes of a digraph text
C24BlockNodes(text) ==
    {text[i][2] : i \in {i \in 1..Len(text) :
        Len(text[i]) >= 4 /\ text[i][1] = "i" /\ text[i][4] = "[shape=box"}}

C24MethodNodes(text) ==
    {text[i][1] : i \in {i \in 1..Len(text) :
        Len(text[i]) >= 3 /\ text[i][3] = "[shape=box"}}

\* the texts of the ids of the blocks of method m
C24BlockIds(st, m) ==
    {ToString(st.B[st.M[m].basic_blocks[k]].block_id) : k \in 1..Len(st.M[m].basic_blocks)}

RECURSIVE C24Nodes(_, _, _, _)
\* the number of nodes when the methods that call a named method have a node
\* per block and every other method has one node
C24Nodes(st, exp_file, methods, n) ==
    IF n = 0 THEN 0
    ELSE C24Nodes(st, exp_file, methods, n - 1)
         + (IF C24CallsTarget(st, methods[n], exp_file)
            THEN Len(st.M[methods[n]].basic_blocks) ELSE 1)

\* C24: in the hybrid digraph a method of the Program has a node per block,
\* and no method node, if and only if the method holds a call whose resolved
\* target is a method the expansion file names (Class::method or Class::*),
\* and every other method has its method node and no block node; the hybrid
\* COO file has as many nodes as that gives
C24_ExpandedIffCallsTarget ==
    pc = "written" /\ output.type = "hybrid" =>
        IF output.format = "dot"
        THEN \A m \in Elements(walk_methods(state)) :
                IF C24CallsTarget(state, m, output.exp_methods)
                THEN /\ C24BlockIds(state, m) \subseteq C24BlockNodes(output.text)
                     /\ ToString(state.M[m].method_id) \notin C24MethodNodes(output.text)
                ELSE /\ C24BlockIds(state, m) \cap C24BlockNodes(output.text) = {}
                     /\ ToString(state.M[m].method_id) \in C24MethodNodes(output.text)
        ELSE output.text[1][1]
                 = ToString(C24Nodes(state, output.exp_methods, walk_methods(state),
                                     Len(walk_methods(state))))

(***************************************************************************)
(* C31: the order of the resolution phases                                 *)
(***************************************************************************)
\* the step reads a line of the open file
C31LineStep ==
    pc = "lines" /\ Len(lines_read') = Len(lines_read) + 1

\* the step reads a method-end line inside a method, outside annotation,
\* field and switch text, and raises nothing
C31MethodEndStep ==
    /\ C31LineStep /\ pc' = "lines"
    /\ state.METHOD_FLAG
    /\ ~state.ANNOTATION_FLAG /\ ~state.FIELD_FLAG /\ ~state.SWITCH_FLAG
    /\ Match("method_end", Clean(Last(lines_read')))

\* the step is the end of the open file: no line is read, the file is left
C31EndOfFileStep ==
    pc = "lines" /\ pc' = "open" /\ lines_read' = lines_read /\ file_idx' = file_idx

\* the method-level call lists of a method, empty for a method not yet created
C31Calls(st, m) ==
    IF m \in DOMAIN st.M THEN <<st.M[m].calls_out, st.M[m].calls_in>> ELSE <<<<>>, <<>>>>

\* the step changes the call lists of a method
C31CallsChange ==
    \E m \in DOMAIN state'.M : C31Calls(state', m) # C31Calls(state, m)

\* the queue is drained: the cursor is at its last entry and every entry was
\* visited once
C31Drained ==
    file_idx = Len(state.file_list) /\ Len(files_read) = Len(state.file_list)

\* C31: the phases run in order. A method's labels are resolved (its report
\* is stored) in the step that reads its method-end line, and in no other
\* step. Method-level call lists change and a class joins the Program only at
\* the end of a file, with the file's last method attached to its class and
\* before the next file is opened, or in the two phases behind the queue.
\* resolve_global_invocations runs only from the driver between two files
\* with the queue drained, resolve_library_invocations only behind it, neither
\* runs again, no file is opened and no line is read behind them, and the
\* queue does not change behind them
C31_PhaseOrder ==
    [][ /\ C31MethodEndStep => state.active_method \in DOMAIN state'.failures
        /\ DOMAIN state'.failures # DOMAIN state.failures =>
              /\ C31MethodEndStep
              /\ DOMAIN state'.failures = DOMAIN state.failures \cup {state.active_method}
        /\ (C31CallsChange \/ state'.classes # state.classes) =>
              \/ /\ C31EndOfFileStep
                 /\ state'.classes = Append(state.classes, state.active_class)
                 /\ InSeq(state.active_method, state'.C[state.active_class].methods)
              \/ pc = "open" /\ pc' = "library"
              \/ pc = "library" /\ pc' = "done"
        /\ (pc' = "library" /\ pc # "library") => pc = "open" /\ C31Drained
        /\ (pc' = "done" /\ pc # "done") => pc = "library"
        /\ pc \in {"library", "done", "written", "converted"} =>
              /\ pc' \notin {"open", "lines"}
              /\ pc # "library" => pc' # "library"
              /\ C31Drained
              /\ state'.file_list = state.file_list
              /\ files_read' = files_read ]_vars

\* both files of the queue were read, labels were resolved, a method calls
\* another, and both phases behind the queue have run
C31_Witness ==
    /\ pc = "done"
    /\ Len(state.file_list) = 2
    /\ \A i \in 1..Len(files_read) : files_read[i].opened
    /\ DOMAIN state.failures # {}
    /\ \E m \in DOMAIN state.M : state.M[m].calls_out # <<>>

(***************************************************************************)
(* C32: the loop over the growing queue                                    *)
(***************************************************************************)
\* C32: the driver gets through the queue. Between two files, while entries
\* of the queue are left, the driver's next step visits the next entry, an
\* entry of the manifest or one appended while parsing: the cursor advances by
\* one, the entry's file is read or found missing, and the driver does not
\* stop; so every entry is visited once and the phases behind the loop are
\* reached when the last entry has been visited
C32_QueueIsConsumed ==
    [][ pc = "open" /\ file_idx < Len(state.file_list) =>
          /\ file_idx' = file_idx + 1
          /\ Len(files_read') = file_idx'
          /\ pc' \in {"lines", "open"} ]_vars

(***************************************************************************)
(* C33: id counters grow and ids are not reused                            *)
(***************************************************************************)
\* the four id counters of the Graph
C33Counters(st) == <<st.class_id, st.method_id, st.block_id, st.instruction_id>>

\* no two of the Program's entities of a kind carry the same id, and every
\* id, of the Program's entities and of every object created so far, is below
\* the counter of its kind
C33Unique(st) ==
    /\ Cardinality(ClassIds(st)) = Cardinality(ClassEntities(st))
    /\ Cardinality(MethodIds(st)) = Cardinality(MethodEntities(st))
    /\ Cardinality(BlockIds(st)) = Cardinality(BlockEntities(st))
    /\ Cardinality(InstructionIds(st)) = Cardinality(InstructionEntities(st))
    /\ \A c \in DOMAIN st.C : st.C[c].class_id < st.class_id
    /\ \A m \in DOMAIN st.M : st.M[m].method_id < st.method_id
    /\ \A b \in DOMAIN st.B :
          /\ st.B[b].block_id < st.block_id
          /\ \A i \in 1..Len(st.B[b].instructions) :
                st.B[b].instructions[i].instr_id < st.instruction_id

\* C33: in every step of parsing and of the resolution phases no id counter
\* decreases, and afterwards the classes, the methods, the blocks and the
\* instructions of the Program, parsed or synthesized, carry pairwise
\* distinct ids, all below the counters
C33_IdsNeverReused ==
    [][ /\ \A k \in 1..4 : C33Counters(state')[k] >= C33Counters(state)[k]
        /\ C33Unique(state') ]_vars

\* a final Program of three classes or more, one of them synthesized with its
\* method and dummy block, so that every counter has advanced in parsing and
\* in resolve_library_invocations
C33_Witness ==
    /\ pc = "done"
    /\ Cardinality(ClassEntities(state)) >= 3
    /\ Cardinality(MethodEntities(state)) >= 3
    /\ Cardinality(BlockEntities(state)) >= 3
    /\ \E c \in ProgramClasses(state) : \E m \in Elements(state.C[c].methods) :
          m # None /\ state.M[m].basic_blocks # <<>>
             /\ state.B[state.M[m].basic_blocks[1]].instructions[1].itype = "DUMMY"

(***************************************************************************)
(* C34: the owners an instruction records                                  *)
(***************************************************************************)
\* the instruction at place i of block b of method m records the id of b as
\* its block and the id of m as its method
C34Owned(st, m, b, i) ==
    /\ st.B[b].instructions[i].block_id = st.B[b].block_id
    /\ st.B[b].instructions[i].method_id = st.M[m].method_id

\* C34: in the final Program every instruction of every block records its
\* owners: its block_id is the id of the block whose instruction list holds
\* it, the leader of a block started by a label or behind a terminator and the
\* method-start instruction included, and its method_id is the id of the
\* method whose block list holds that block
C34_InstructionOwners ==
    pc = "done" =>
        \A m \in ProgramMethods(state) : \A b \in Elements(state.M[m].basic_blocks) :
            b # None => \A i \in 1..Len(state.B[b].instructions) : C34Owned(state, m, b, i)

\* the same for the instructions that lead no block
C34_FollowerOwners ==
    pc = "done" =>
        \A m \in ProgramMethods(state) : \A b \in Elements(state.M[m].basic_blocks) :
            b # None => \A i \in 2..Len(state.B[b].instructions) : C34Owned(state, m, b, i)

(***************************************************************************)
(* C35: the active block of a line read inside a method                    *)
(***************************************************************************)
\* the step reads a line that process_instruction handles in its METHOD_FLAG
\* branch as method-end, label, return, goto, if, invoke or other instruction
C35Step ==
    /\ pc = "lines"
    /\ Len(lines_read') = Len(lines_read) + 1
    /\ LET instr == Clean(Last(lines_read'))
           pre   == FlagsBefore(Dispatch(instr), state)
       IN  /\ pre.METHOD_FLAG
           /\ ~pre.ANNOTATION_FLAG /\ ~pre.FIELD_FLAG /\ ~pre.SWITCH_FLAG
           /\ ~Match("method_start", instr)
           /\ \/ \E kind \in {"method_end", "label", "return", "goto", "if", "invoke"} :
                    Match(kind, instr)
              \/ ~Match("line", instr)

\* C35: a line that the METHOD_FLAG branch handles as method-end, label,
\* return, goto, if, invoke or other instruction finds an active block, also
\* when the data of a packed-switch or sparse-switch was read before it in the
\* method, and the step does not raise for want of one
C35_ActiveBlockSet ==
    [][ C35Step => state.active_block # None ]_vars

(***************************************************************************)
(* C36: the edges of a packed-switch / sparse-switch opcode                *)
(***************************************************************************)
\* the data labels that the switch opcodes of block b reference (the files of
\* the model hold the packed-switch opcode; the sparse-switch opcode takes the
\* same branch of process_instruction)
C36SwitchLabels(st, b) ==
    { Last(Split(st.B[b].instructions[i].instruction, " ")) :
        i \in { j \in 1..Len(st.B[b].instructions) :
                  Match("p_switch", st.B[b].instructions[j].instruction) } }

\* the aliases that the alias table of method m lists for the data labels of
\* the switch opcodes of block b
C36Aliases(st, m, b) ==
    UNION { Elements(Lookup(st.M[m].label_aliases, l)) :
              l \in { k \in C36SwitchLabels(st, b) : HasKey(st.M[m].label_aliases, k) } }

\* the step reads the .end method of a method that holds a switch opcode and
\* the aliases of its data label
C36Step ==
    /\ pc = "lines"
    /\ Len(lines_read') = Len(lines_read) + 1
    /\ LET instr == Clean(Last(lines_read'))
           pre   == FlagsBefore(Dispatch(instr), state)
       IN  /\ pre.METHOD_FLAG
           /\ ~pre.ANNOTATION_FLAG /\ ~pre.FIELD_FLAG /\ ~pre.SWITCH_FLAG
           /\ Match("method_end", instr)
    /\ \E b \in MethodBlocks(state, state.active_method) :
           C36Aliases(state, state.active_method, b) # {}

\* C36: when the .end method of a method with a packed-switch or sparse-switch
\* opcode has been read and the labels are resolved, the block of the opcode
\* has, for every alias listed in the data of the label the opcode references,
\* the block of the method led by that alias as a child, and is a parent of it
C36_SwitchEdges ==
    [][ C36Step =>
          /\ pc' # "crashed"
          /\ \A b \in MethodBlocks(state, state.active_method) :
                 \A a \in C36Aliases(state, state.active_method, b) :
                     \E c \in MethodBlocks(state', state.active_method) :
                         /\ Leader(state', c) = a
                         /\ InSeq(c, state'.B[b].child_block_ids)
                         /\ InSeq(b, state'.B[c].parent_block_ids) ]_vars

\* the step reads a packed-switch opcode in a method
C36OpcodeStep ==
    /\ pc = "lines" /\ pc' # "crashed"
    /\ Len(lines_read') = Len(lines_read) + 1
    /\ LET instr == Clean(Last(lines_read'))
           pre   == FlagsBefore(Dispatch(instr), state)
       IN  /\ pre.METHOD_FLAG
           /\ ~pre.ANNOTATION_FLAG /\ ~pre.FIELD_FLAG /\ ~pre.SWITCH_FLAG
           /\ Match("p_switch", instr)

\* the opcode is stored as an instruction of kind "other": no label call is
\* registered for it and the pending-terminator flag stays clear
C36_OpcodeIsOther ==
    [][ C36OpcodeStep =>
          /\ state'.M[state.active_method].label_calls
                 = state.M[state.active_method].label_calls
          /\ ~state'.block_term ]_vars

(***************************************************************************)
(* C37: add_invocation for every class path of the source class            *)
(***************************************************************************)
\* the step reads an invoke line in a method that has an active block; the
\* line names a target class (L...;->)
C37Step ==
    /\ pc = "lines"
    /\ Len(lines_read') = Len(lines_read) + 1
    /\ LET instr == Clean(Last(lines_read'))
           pre   == FlagsBefore(Dispatch(instr), state)
       IN  /\ pre.METHOD_FLAG
           /\ ~pre.ANNOTATION_FLAG /\ ~pre.FIELD_FLAG /\ ~pre.SWITCH_FLAG
           /\ Match("invoke", instr)
           /\ invoke_class_starts(instr) # {}
    /\ state.active_block # None

\* C37: add_invocation classifies the invoke of a class of any class path,
\* also a path of one segment (Lcom) and the empty path of the default
\* package: the step that reads the invoke line raises no error
C37_AddInvocationTotal ==
    [][ C37Step => pc' # "crashed" ]_vars

(***************************************************************************)
(* C38: the class a cross-class invocation is connected to                 *)
(***************************************************************************)
\* the classes k and methods t of the Program such that the step from st to
\* st2 made the entry block of t a child of the block with id block_id
C38Connected(st, st2, block_id) ==
    { e \in Elements(st.classes) \X DOMAIN st.M :
        /\ InSeq(e[2], st.C[e[1]].methods)
        /\ st.M[e[2]].basic_blocks # <<>>
        /\ \E b \in DOMAIN st.B :
               /\ st.B[b].block_id = block_id
               /\ LET entry == st.B[st.M[e[2]].basic_blocks[1]].block_id
                  IN  /\ InSeq(entry, st2.B[b].child_block_ids)
                      /\ ~InSeq(entry, st.B[b].child_block_ids) }

\* C38: when resolve_global_invocations connects the block of a cross-class
\* invocation to a method, the method belongs to the class the invoke names:
\* the owning class's path and name are those of the recorded target class,
\* also when two parsed classes of different packages have the same short name
C38_TargetClass ==
    [][ pc = "open" /\ pc' = "library" =>
          \A c \in Elements(state.classes) :
              \A i \in 1..Len(state.C[c].invocations_global) :
                  \A e \in C38Connected(state, state', state.C[c].invocations_global[i][2]) :
                      state.C[e[1]].class_path \o <<"/">> \o state.C[e[1]].class_name
                          = state.C[c].invocations_global[i][3] ]_vars

====
